---- MODULE Spec2Model ----
(***************************************************************************)
(* Model of the GenX trading-signal pipeline:                              *)
(*   TechnicalAnalysis._generate_signals  (technical_analysis.py)          *)
(*   MLTradingModel.predict_signal / combine_signals / train_model         *)
(*                                        (ml_model.py)                    *)
(*   TradingBot.run_analysis / run_daily_analysis (trading_bot.py)         *)
(*   MarketPredictor                      (ai_models/market_predictor.py)  *)
(*                                                                         *)
(* Confidences, strengths and probabilities are fixed-point numbers in     *)
(* thousandths: 1.0 is 1000, 0.7 is 700.  All the arithmetic of the        *)
(* modelled code is exact on the grids the inputs are drawn from.          *)
(***************************************************************************)
EXTENDS Integers, Sequences, FiniteSets, TLC

VARIABLES
    pc,                 \* position of the process the specification runs
    indicators,         \* arguments of _generate_signals
    ml_outcome,         \* what scaler/model return (or raise) when asked
    is_trained,         \* MLTradingModel.is_trained
    model_used,         \* whether predict_signal consulted the scaler/model
    technical_signals,  \* dict returned by _generate_signals
    ml_prediction,      \* dict returned by predict_signal
    combined_signal,    \* dict returned by combine_signals
    signals,            \* SignalHistory.signals
    daily_count,        \* SignalHistory.daily_count
    now,                \* datetime.now(), in hours
    symbol_idx,         \* index into Config.STOCK_SYMBOLS of the loop of run_analysis
    signals_sent,       \* local counter of run_analysis
    step_outcome,       \* how the last loop iteration ended
    delivery,           \* signal_data handed to send_signal_sync in that iteration
    stock_data,         \* what fetch_stock_data returned in that iteration
    train_result,       \* what the last train_model call returned
    mp_is_trained,      \* MarketPredictor.is_trained
    mp_model,           \* MarketPredictor.model
    mp_scaler,          \* MarketPredictor.scaler
    mp_file,            \* the file at MarketPredictor.model_path
    mp_call,            \* the last MarketPredictor call and how it ended
    pat_data,           \* the frame handed to PatternDetector.detect_patterns
    pat_results,        \* the dict detect_patterns returned
    ind_prices,         \* the prices handed to an indicator function
    ind_period,         \* its lookback period
    ind_result,         \* the indicator function called and what it returned
    engine,             \* TradingEngine: its flags and the calls of the last pass
    capital_com,        \* CapitalComAPI: session tokens and the requests sent
    backtest_state,     \* locals of the loop of scripts/backtest.py backtest()
    paper_account,      \* AdvancedDiscordBot.paper_accounts[user_id]
    history_calls       \* SignalHistory: the records loaded and added, the adds since a reset

pipeVars == <<indicators, ml_outcome, model_used,
              technical_signals, ml_prediction, combined_signal>>

botVars == <<signals, daily_count, now, symbol_idx, signals_sent, step_outcome,
             delivery, stock_data, train_result>>

mpVars == <<mp_is_trained, mp_model, mp_scaler, mp_file, mp_call>>

libVars == <<pat_data, pat_results, ind_prices, ind_period, ind_result>>

extVars == <<engine, capital_com, backtest_state, paper_account, history_calls>>

vars == <<pc, is_trained, pipeVars, botVars, mpVars, libVars, extVars>>

---------------------------------------------------------------------------
(* Numbers *)

\* 1.0 in thousandths
One == 10 * 100

Min(a, b) == IF a <= b THEN a ELSE b
Max(a, b) == IF a >= b THEN a ELSE b

\* float('nan'): every ordered comparison with it is false
NaN == 0 - 999

IsNaN(x) == x = NaN
Gt(a, b) == ~IsNaN(a) /\ ~IsNaN(b) /\ a > b
Lt(a, b) == ~IsNaN(a) /\ ~IsNaN(b) /\ a < b
Ge(a, b) == ~IsNaN(a) /\ ~IsNaN(b) /\ a >= b
Le(a, b) == ~IsNaN(a) /\ ~IsNaN(b) /\ a <= b

---------------------------------------------------------------------------
(* Python dicts: functions over a set of keys; None is its own value *)

None == [none |-> TRUE]
EmptyDict == [k \in {} |-> 0]
IsNone(d) == "none" \in DOMAIN d

\* dict.get(key, default)
Get(d, key, default) == IF key \in DOMAIN d THEN d[key] ELSE default

---------------------------------------------------------------------------
(* Config (config.py) *)

RSI_OVERBOUGHT == 70
RSI_OVERSOLD == 30
MIN_CONFIDENCE_THRESHOLD == 600
MAX_SIGNALS_PER_DAY == 10
SIGNAL_COOLDOWN_HOURS == 4

\* SignalHistory keeps the last 1000 signals (utils.py)
MAX_HISTORY == 1000

---------------------------------------------------------------------------
(* Bounds of the model *)

\* the loop of run_analysis runs over the first NumSymbols of STOCK_SYMBOLS
NumSymbols == 2

\* the clock stops after MaxClock hours
MaxClock == 2

\* training sets and prediction inputs of MarketPredictor are numbered 1..MaxData
MaxData == 2

\* indicator functions are run on every price series of up to MaxBars bars
MaxBars == 4

---------------------------------------------------------------------------
(* TechnicalAnalysis._generate_signals *)

RECURSIVE SumStrength(_)
SumStrength(s) == IF s = <<>> THEN 0 ELSE Head(s).strength + SumStrength(Tail(s))

OfType(s, t) == SelectSeq(s, LAMBDA x : x.type = t)

\* the rule signals appended, in order: RSI, MACD, moving averages
rule_signals(rsi, macd, signal, ma_short, ma_long, price) ==
    (IF Gt(rsi, RSI_OVERBOUGHT) THEN <<[type |-> "SELL", strength |-> 700]>>
     ELSE IF Lt(rsi, RSI_OVERSOLD) THEN <<[type |-> "BUY", strength |-> 700]>>
     ELSE <<>>)
    \o
    (IF Gt(macd, signal) /\ Gt(macd, 0) THEN <<[type |-> "BUY", strength |-> 600]>>
     ELSE IF Lt(macd, signal) /\ Lt(macd, 0) THEN <<[type |-> "SELL", strength |-> 600]>>
     ELSE <<>>)
    \o
    (IF Gt(price, ma_short) /\ Gt(ma_short, ma_long)
        THEN <<[type |-> "BUY", strength |-> 500]>>
     ELSE IF Lt(price, ma_short) /\ Lt(ma_short, ma_long)
        THEN <<[type |-> "SELL", strength |-> 500]>>
     ELSE <<>>)

\* mutant: the sum of the strengths is not divided by the bucket's length
bucket_confidence_sum(bucket) == Min(SumStrength(bucket), One)

\* min(sum(strengths) / len(bucket), 1.0)
bucket_confidence(bucket) == Min(SumStrength(bucket) \div Len(bucket), One)

overall(sigs) ==
    LET buy_signals == OfType(sigs, "BUY")
        sell_signals == OfType(sigs, "SELL")
    IN  IF Len(buy_signals) > Len(sell_signals)
            THEN [overall_signal |-> "BUY",
                  confidence |-> bucket_confidence(buy_signals),
                  individual_signals |-> sigs,
                  signal_count |-> [BUY |-> Len(buy_signals), SELL |-> Len(sell_signals)]]
        ELSE IF Len(sell_signals) > Len(buy_signals)
            THEN [overall_signal |-> "SELL",
                  confidence |-> bucket_confidence(sell_signals),
                  individual_signals |-> sigs,
                  signal_count |-> [BUY |-> Len(buy_signals), SELL |-> Len(sell_signals)]]
        ELSE [overall_signal |-> "HOLD",
              confidence |-> 500,
              individual_signals |-> sigs,
              signal_count |-> [BUY |-> Len(buy_signals), SELL |-> Len(sell_signals)]]

generate_signals(rsi, macd, signal, ma_short, ma_long, price) ==
    overall(rule_signals(rsi, macd, signal, ma_short, ma_long, price))

---------------------------------------------------------------------------
(* MLTradingModel.predict_signal *)

\* the HOLD/0.5 record of the untrained branch and of the except branch
default_prediction ==
    [predicted_signal |-> "HOLD", confidence |-> 500,
     ml_probability |-> <<330, 330, 340>>]

\* signal_map = {0: "SELL", 1: "BUY", 2: "HOLD"}; sequences are 1-based
signal_map(prediction) ==
    IF prediction = 0 THEN "SELL" ELSE IF prediction = 1 THEN "BUY" ELSE "HOLD"

\* RandomForestClassifier.predict: the first class of maximal probability
argmax(p) ==
    IF p[1] >= p[2] /\ p[1] >= p[3] THEN 0
    ELSE IF p[2] >= p[3] THEN 1 ELSE 2

max_probability(p) == Max(p[1], Max(p[2], p[3]))

\* outcome.raises: scaler.transform / model.predict raised;
\* outcome.probabilities: predict_proba's row, classes 0 (SELL), 1 (BUY), 2 (HOLD)
predict_signal(trained, outcome) ==
    IF ~trained THEN default_prediction
    ELSE IF outcome.raises THEN default_prediction
    ELSE [predicted_signal |-> signal_map(argmax(outcome.probabilities)),
          confidence |-> max_probability(outcome.probabilities),
          ml_probability |-> outcome.probabilities]

\* mutant: the is_trained guard is missing
predict_uses_model_always(trained) == TRUE

\* whether predict_signal reaches scaler.transform
predict_uses_model(trained) == trained

---------------------------------------------------------------------------
(* MLTradingModel.combine_signals *)

\* mutant: the 0.1 agreement bonus is missing
agree_confidence_no_bonus(ta_confidence, ml_confidence) ==
    Min((ta_confidence + ml_confidence) \div 2, One)

\* line 279: min((ta_confidence + ml_confidence) / 2 + 0.1, 1.0)
agree_confidence(ta_confidence, ml_confidence) ==
    Min((ta_confidence + ml_confidence) \div 2 + 100, One)

\* mutant: the discount divides by 0.7 instead of multiplying
hold_confidence_div(ta_confidence, ml_confidence) ==
    (Max(ta_confidence, ml_confidence) * 10) \div 7

\* line 283: max(ta_confidence, ml_confidence) * 0.7
hold_confidence(ta_confidence, ml_confidence) ==
    (Max(ta_confidence, ml_confidence) * 7) \div 10

\* mutant: BUY against SELL falls into the one-is-HOLD branch
combine_branch_no_disagree(ta_signal, ml_signal) ==
    IF ta_signal = ml_signal THEN "agree" ELSE "one_hold"

\* the if / elif / else of lines 276-287
combine_branch(ta_signal, ml_signal) ==
    IF ta_signal = ml_signal THEN "agree"
    ELSE IF ta_signal = "HOLD" \/ ml_signal = "HOLD" THEN "one_hold"
    ELSE "disagree"

\* body of the try block; exception = the body raised (.get on None)
combine_try(ts, ml) ==
    IF IsNone(ts) \/ IsNone(ml)
        THEN [exception |-> TRUE, final_signal |-> "HOLD", final_confidence |-> 0]
    ELSE
    LET ta_signal == Get(ts, "overall_signal", "HOLD")
        ta_confidence == Get(ts, "confidence", 500)
        ml_signal == Get(ml, "predicted_signal", "HOLD")
        ml_confidence == Get(ml, "confidence", 500)
        branch == combine_branch(ta_signal, ml_signal)
    IN  IF branch = "agree"
            THEN [exception |-> FALSE,
                  final_signal |-> ta_signal,
                  final_confidence |-> agree_confidence(ta_confidence, ml_confidence)]
        ELSE IF branch = "one_hold"
            THEN [exception |-> FALSE,
                  final_signal |-> IF ta_signal # "HOLD" THEN ta_signal ELSE ml_signal,
                  final_confidence |-> hold_confidence(ta_confidence, ml_confidence)]
        ELSE [exception |-> FALSE, final_signal |-> "HOLD", final_confidence |-> 300]

\* mutant: no except block, the exception propagates
combine_except_reraise(r) == r

\* line 300-307: what the except block returns
combine_except(r) ==
    IF r.exception
        THEN [exception |-> FALSE, final_signal |-> "HOLD", final_confidence |-> 500]
    ELSE r

combine_signals(ts, ml) == combine_except(combine_try(ts, ml))

---------------------------------------------------------------------------
(* Inputs *)

Kinds == {"BUY", "SELL", "HOLD"}

\* confidences 0.00, 0.05, ..., 1.00
ConfidenceGrid == {50 * k : k \in 0..20}

RsiValues == {NaN, 25, 30, 50, 70, 75}
MacdValues == {NaN, 0 - 1, 0, 1}
MacdSignalValues == {NaN, 0 - 2, 0, 2}
PriceValues == {NaN, 2}
MaShortValues == {NaN, 1, 2, 3}
MaLongValues == {NaN, 0, 2, 4}

IndicatorInputs ==
    [rsi : RsiValues, macd : MacdValues, signal : MacdSignalValues,
     ma_short : MaShortValues, ma_long : MaLongValues, price : PriceValues]

\* rows of predict_proba: three probabilities in fifths that sum to 1
ProbabilityRows ==
    {<<200 * a, 200 * b, One - 200 * a - 200 * b>> : a \in 0..5, b \in 0..5}
        \cap [1..3 -> 0..One]

ModelRaises == [raises |-> TRUE, probabilities |-> <<0, 0, 0>>]

\* an unfitted scaler/forest raises NotFittedError; a fitted one answers or raises
ModelOutcomes(trained) ==
    IF trained
        THEN {ModelRaises} \cup {[raises |-> FALSE, probabilities |-> p] : p \in ProbabilityRows}
    ELSE {ModelRaises}

NoIndicators == [rsi |-> NaN, macd |-> NaN, signal |-> NaN,
                 ma_short |-> NaN, ma_long |-> NaN, price |-> NaN]

---------------------------------------------------------------------------
(* MarketPredictor (ai_models/market_predictor.py) *)

\* self.model = None
NoModel == [id |-> 0, fitted |-> FALSE]

\* no MarketPredictor in use
MPIdle ==
    /\ mp_is_trained = FALSE
    /\ mp_model = NoModel
    /\ mp_scaler = 0
    /\ mp_file = [kind |-> "absent", model |-> NoModel, scaler |-> 0]
    /\ mp_call = [op |-> "none", raised |-> "none", value |-> <<>>]

---------------------------------------------------------------------------
(* TradingBot and SignalHistory: the state outside a pass *)

\* SignalHistory.__init__ without a history file, no pass started
BotHistoryIdle ==
    /\ signals = <<>>
    /\ daily_count = 0
    /\ now = 0
    /\ symbol_idx = 0
    /\ signals_sent = 0
    /\ step_outcome = "none"
    /\ delivery = None
    /\ stock_data = "unfetched"
    /\ train_result = "none"

\* no pattern detection and no indicator call in progress
LibIdle ==
    /\ pat_data = None
    /\ pat_results = None
    /\ ind_prices = <<>>
    /\ ind_period = 0
    /\ ind_result = None

\* no engine, no API client, no backtest and no paper account in use
ExtIdle ==
    /\ engine = None
    /\ capital_com = None
    /\ backtest_state = None
    /\ paper_account = None
    /\ history_calls = None

\* the idle state of every component but the pipeline
BotIdle == BotHistoryIdle /\ MPIdle /\ LibIdle /\ ExtIdle

---------------------------------------------------------------------------
(* The analysis pipeline of one symbol: trading_bot.py lines 58-71 *)

InitPipeline ==
    /\ pc = "analyze"
    /\ indicators = NoIndicators
    /\ is_trained \in BOOLEAN    \* before or after a successful train_model
    /\ ml_outcome = ModelRaises
    /\ model_used = FALSE
    /\ technical_signals = None
    /\ ml_prediction = None
    /\ combined_signal = None
    /\ BotIdle

\* analysis['signals'] = self._generate_signals(...)
GenerateSignals ==
    /\ pc = "analyze"
    /\ \E i \in IndicatorInputs :
        /\ indicators' = i
        /\ technical_signals' =
              generate_signals(i.rsi, i.macd, i.signal, i.ma_short, i.ma_long, i.price)
    /\ pc' = "predict"
    /\ UNCHANGED <<ml_outcome, is_trained, model_used, ml_prediction, combined_signal>>
    /\ UNCHANGED <<botVars, mpVars, libVars, extVars>>

\* ml_prediction = self.ml_model.predict_signal(analysis)
PredictSignal ==
    /\ pc = "predict"
    /\ \E o \in ModelOutcomes(is_trained) :
        /\ ml_outcome' = o
        /\ ml_prediction' = predict_signal(is_trained, o)
    /\ model_used' = predict_uses_model(is_trained)
    /\ pc' = "combine"
    /\ UNCHANGED <<indicators, is_trained, technical_signals, combined_signal>>
    /\ UNCHANGED <<botVars, mpVars, libVars, extVars>>

\* combined_signal = self.ml_model.combine_signals(analysis.get('signals', {}), ml_prediction)
CombineSignals ==
    /\ pc = "combine"
    /\ combined_signal' = combine_signals(technical_signals, ml_prediction)
    /\ pc' = "done"
    /\ UNCHANGED <<indicators, ml_outcome, is_trained, model_used,
                   technical_signals, ml_prediction>>
    /\ UNCHANGED <<botVars, mpVars, libVars, extVars>>

NextPipeline == GenerateSignals \/ PredictSignal \/ CombineSignals

SpecPipeline == InitPipeline /\ [][NextPipeline]_vars

---------------------------------------------------------------------------
(* SignalHistory (utils.py) *)

\* the reversed scan of should_skip_symbol, from index i down
RECURSIVE skip_scan(_, _, _, _)
skip_scan(sigs, i, symbol, cutoff_time) ==
    IF i = 0 THEN FALSE
    ELSE IF sigs[i].timestamp < cutoff_time THEN FALSE
    ELSE IF sigs[i].symbol = symbol THEN TRUE
    ELSE skip_scan(sigs, i - 1, symbol, cutoff_time)

\* mutant: a recent signal of any symbol makes the symbol skipped
should_skip_any_symbol(sigs, symbol, t) ==
    Len(sigs) > 0 /\ sigs[Len(sigs)].timestamp >= t - SIGNAL_COOLDOWN_HOURS

\* mutant: only the most recent record is looked at
should_skip_last_only(sigs, symbol, t) ==
    /\ Len(sigs) > 0
    /\ sigs[Len(sigs)].timestamp >= t - SIGNAL_COOLDOWN_HOURS
    /\ sigs[Len(sigs)].symbol = symbol

should_skip_symbol(sigs, symbol, t) ==
    skip_scan(sigs, Len(sigs), symbol, t - SIGNAL_COOLDOWN_HOURS)

\* mutant: the first MAX_HISTORY records are kept
add_signal_keeps_oldest(sigs, symbol, signal, confidence, t) ==
    LET appended == Append(sigs, [timestamp |-> t, symbol |-> symbol,
                                  signal |-> signal, confidence |-> confidence])
    IN  IF Len(appended) > MAX_HISTORY THEN SubSeq(appended, 1, MAX_HISTORY)
        ELSE appended

add_signal(sigs, symbol, signal, confidence, t) ==
    LET appended == Append(sigs, [timestamp |-> t, symbol |-> symbol,
                                  signal |-> signal, confidence |-> confidence])
    IN  IF Len(appended) > MAX_HISTORY
            THEN SubSeq(appended, Len(appended) - MAX_HISTORY + 1, Len(appended))
        ELSE appended

---------------------------------------------------------------------------
(* SignalHistory on its own: add_signal and reset_daily_count *)

\* number of add_signal calls of a run
MaxAdds == 3

\* a history of n records, as add_signal wrote them at the times 1 .. n
stored_history(n) ==
    [i \in 1..n |-> [timestamp |-> i, symbol |-> 1, signal |-> "BUY",
                     confidence |-> MIN_CONFIDENCE_THRESHOLD]]

\* the clock counts hours; the calendar day of a time
HOURS_PER_DAY == 24
date_of(t) == t \div HOURS_PER_DAY

\* the history file: absent, not a JSON document, or as save_history wrote it
NoHistoryFile == [kind |-> "absent", signals |-> <<>>, daily_count |-> 0]
UnreadableHistoryFile == [kind |-> "unreadable", signals |-> <<>>, daily_count |-> 0]
HistoryFile(n, c) == [kind |-> "stored", signals |-> stored_history(n), daily_count |-> c]

\* load_history at the time t: the fields after __init__.  The stored count is
\* kept unless the last stored record is dated before today
load_history(file, t) ==
    IF file.kind # "stored" THEN [signals |-> <<>>, daily_count |-> 0]
    ELSE IF Len(file.signals) > 0
            /\ date_of(file.signals[Len(file.signals)].timestamp) # date_of(t)
        THEN [signals |-> file.signals, daily_count |-> 0]
    ELSE [signals |-> file.signals, daily_count |-> file.daily_count]

\* files an earlier run left: up to MAX_HISTORY records, of which the last
\* none or two were added since its last reset
HistoryFiles ==
    {NoHistoryFile, UnreadableHistoryFile}
    \cup UNION {{HistoryFile(n, c) : c \in {k \in {0, 2} : k <= n}} :
                    n \in {0, MAX_HISTORY - 2, MAX_HISTORY - 1, MAX_HISTORY}}

\* __init__ / load_history, in the hour after the last stored record or a day
\* later
InitHistory ==
    /\ pc = "history"
    /\ is_trained = FALSE
    /\ indicators = NoIndicators
    /\ ml_outcome = ModelRaises
    /\ model_used = FALSE
    /\ technical_signals = None
    /\ ml_prediction = None
    /\ combined_signal = None
    /\ \E file \in HistoryFiles, later \in {0, HOURS_PER_DAY} :
        LET t == Len(file.signals) + 1 + later
            h == load_history(file, t)
        IN  /\ signals = h.signals
            /\ daily_count = h.daily_count
            /\ now = t
            /\ history_calls = [loaded |-> h.signals, loaded_count |-> h.daily_count,
                                added |-> <<>>, since_reset |-> 0, resets |-> 0]
    /\ symbol_idx = 0
    /\ signals_sent = 0
    /\ step_outcome = "none"
    /\ delivery = None
    /\ stock_data = "unfetched"
    /\ train_result = "none"
    /\ MPIdle
    /\ LibIdle
    /\ engine = None
    /\ capital_com = None
    /\ backtest_state = None
    /\ paper_account = None

\* add_signal(symbol, signal, confidence) at the time now; the clock moves on
AddSignal ==
    /\ pc = "history"
    /\ Len(history_calls.added) < MaxAdds
    /\ \E symbol \in 1..NumSymbols, signal \in {"BUY", "SELL"} :
        /\ signals' = add_signal(signals, symbol, signal, MIN_CONFIDENCE_THRESHOLD, now)
        /\ history_calls' =
             [history_calls EXCEPT
                !.added = Append(@, [timestamp |-> now, symbol |-> symbol,
                                     signal |-> signal,
                                     confidence |-> MIN_CONFIDENCE_THRESHOLD]),
                !.since_reset = @ + 1]
    /\ daily_count' = daily_count + 1
    /\ now' = now + 1
    /\ UNCHANGED <<pc, is_trained, pipeVars, symbol_idx, signals_sent, step_outcome,
                   delivery, stock_data, train_result, mpVars, libVars,
                   engine, capital_com, backtest_state, paper_account>>

\* reset_daily_count()
ResetDailyCount ==
    /\ pc = "history"
    /\ daily_count' = 0
    /\ history_calls' = [history_calls EXCEPT !.since_reset = 0, !.resets = Min(@ + 1, 1)]
    /\ UNCHANGED <<pc, is_trained, pipeVars, signals, now, symbol_idx, signals_sent,
                   step_outcome, delivery, stock_data, train_result, mpVars, libVars,
                   engine, capital_com, backtest_state, paper_account>>

NextHistory == AddSignal \/ ResetDailyCount

SpecHistory == InitHistory /\ [][NextHistory]_vars

---------------------------------------------------------------------------
(* MLTradingModel.train_model *)

\* how a train_model call goes: create_training_data returns nothing, a step
\* of splitting / scaling / fitting raises, or the model is fitted
TrainOutcomes == {"no_data", "raises", "ok"}

\* the value train_model returns
train_model_returns(o) == o = "ok"

\* mutant: the flag is set before the training data is looked at
train_model_sets_flag_first(trained, o) == TRUE

\* is_trained after the call: line 185 is reached only when nothing failed
train_model_is_trained(trained, o) == IF o = "ok" THEN TRUE ELSE trained

---------------------------------------------------------------------------
(* TradingBot.run_analysis: one iteration of the loop over STOCK_SYMBOLS *)

\* mutant: the HOLD test of line 77 is missing
actionable_any_kind(final_signal, final_confidence) ==
    final_confidence >= MIN_CONFIDENCE_THRESHOLD

\* line 77
actionable(final_signal, final_confidence) ==
    final_confidence >= MIN_CONFIDENCE_THRESHOLD /\ final_signal # "HOLD"

\* fetch_stock_data: None, fewer than 50 bars, or at least 50 bars
FetchResults == {"none", "short", "ok"}

\* indicator readings analyze_stock hands to _generate_signals in the bot runs
BotIndicators ==
    {NoIndicators,
     [NoIndicators EXCEPT !.rsi = 25],
     [NoIndicators EXCEPT !.rsi = 75]}

\* analyze_stock: {} after an internal error, or an analysis
AnalysisResults ==
    {[empty |-> TRUE, ind |-> NoIndicators]}
        \cup {[empty |-> FALSE, ind |-> i] : i \in BotIndicators}

\* mutant: the length check of line 176 is missing
analyze_stock_no_length_check(data, a) ==
    IF data = "none" THEN EmptyDict
    ELSE IF a.empty /\ data = "ok" THEN EmptyDict
    ELSE [rsi |-> a.ind.rsi, current_price |-> a.ind.price,
          signals |-> generate_signals(a.ind.rsi, a.ind.macd, a.ind.signal,
                                       a.ind.ma_short, a.ind.ma_long, a.ind.price)]

\* analyze_stock: {} when len(data) raises (data is None), when there are fewer
\* than 50 bars, and when a step of the analysis raises; else the analysis
analyze_stock(data, a) ==
    IF data = "none" THEN EmptyDict
    ELSE IF data = "short" THEN EmptyDict
    ELSE IF a.empty THEN EmptyDict
    ELSE [rsi |-> a.ind.rsi, current_price |-> a.ind.price,
          signals |-> generate_signals(a.ind.rsi, a.ind.macd, a.ind.signal,
                                       a.ind.ma_short, a.ind.ma_long, a.ind.price)]

BotModelOutcomes(trained) ==
    IF trained
        THEN {ModelRaises,
              [raises |-> FALSE, probabilities |-> <<0, One, 0>>],
              [raises |-> FALSE, probabilities |-> <<0, 0, One>>]}
    ELSE {ModelRaises}

\* TelegramSignalBot.send_signal: True when bot.send_message returned, False
\* when formatting or sending raised; send_signal_sync passes it on
send_signal(message_sent) == IF message_sent THEN TRUE ELSE FALSE

\* mutant: the value send_signal_sync returned is not looked at
delivery_step_ignores_result(returned) == "sent"

\* lines 95-107: how the iteration ends after the delivery attempt
delivery_step(returned) == IF returned THEN "sent" ELSE "send_failed"

\* lines 46-109 for one symbol; what the iteration computes and how it ends
loop_body(sigs, t, trained, symbol, fetch, analysis, model_outcome, send_ok) ==
    LET unreached == [step |-> "skipped", stock_data |-> "unfetched",
                      indicators |-> NoIndicators,
                      model_outcome |-> ModelRaises, model_used |-> FALSE,
                      technical |-> None, prediction |-> None,
                      combined |-> None, delivery |-> None]
        reached == [unreached EXCEPT !.stock_data = fetch,
                                     !.indicators = analysis.ind,
                                     !.model_outcome = model_outcome,
                                     !.model_used = predict_uses_model(trained)]
    IN  IF should_skip_symbol(sigs, symbol, t) THEN unreached
        ELSE IF fetch # "ok"
            THEN [unreached EXCEPT !.step = "no_data", !.stock_data = fetch]
        ELSE IF analyze_stock(fetch, analysis) = EmptyDict
            THEN [unreached EXCEPT !.step = "no_analysis", !.stock_data = fetch]
        ELSE
        LET ts == Get(analyze_stock(fetch, analysis), "signals", EmptyDict)
            mlp == predict_signal(trained, model_outcome)
            comb == combine_signals(ts, mlp)
        IN  IF actionable(comb.final_signal, comb.final_confidence)
                THEN [reached EXCEPT
                        !.step = delivery_step(send_signal(send_ok)),
                        !.technical = ts, !.prediction = mlp, !.combined = comb,
                        !.delivery = [symbol |-> symbol,
                                      final_signal |-> comb.final_signal,
                                      final_confidence |-> comb.final_confidence,
                                      returned |-> send_signal(send_ok)]]
            ELSE [reached EXCEPT
                    !.step = "below_threshold",
                    !.technical = ts, !.prediction = mlp, !.combined = comb]

\* what the collaborators answer during one iteration; an answer that is never
\* asked for (the symbol is skipped, no data was fetched) is not varied
IterationInputs(sigs, t, trained, symbol) ==
    LET unasked == [fetch |-> "none", analysis |-> [empty |-> TRUE, ind |-> NoIndicators],
                    model_outcome |-> ModelRaises, send_ok |-> FALSE, raises |-> "none"]
    IN  IF should_skip_symbol(sigs, symbol, t) THEN {unasked}
        ELSE {[unasked EXCEPT !.fetch = f] : f \in FetchResults}
             \cup {[fetch |-> "ok", analysis |-> a, model_outcome |-> o, send_ok |-> ok,
                    raises |-> "none"] :
                      a \in {x \in AnalysisResults : ~x.empty},
                      o \in BotModelOutcomes(trained), ok \in BOOLEAN}

\* mutant: no try/except around the loop body, an exception ends the pass
iteration_unprotected(sigs, t, trained, symbol, in) ==
    LET r == loop_body(sigs, t, trained, symbol, in.fetch, in.analysis,
                       in.model_outcome, in.send_ok)
    IN  IF r.step = "skipped" THEN r
        ELSE IF in.raises = "fetch"
            THEN [loop_body(sigs, t, trained, symbol, "none", in.analysis,
                            in.model_outcome, in.send_ok)
                    EXCEPT !.step = "abort", !.stock_data = "unfetched"]
        ELSE IF in.raises = "log" /\ r.step = "sent"
            THEN [r EXCEPT !.step = "sent_abort"]
        ELSE r

\* lines 46-111: the loop body inside its try/except.  in.raises names the
\* call of the iteration that raises: "fetch" is a call before any analysis,
\* "log" the logger call of line 100, after add_signal and signals_sent += 1
iteration(sigs, t, trained, symbol, in) ==
    LET r == loop_body(sigs, t, trained, symbol, in.fetch, in.analysis,
                       in.model_outcome, in.send_ok)
    IN  IF r.step = "skipped" THEN r
        ELSE IF in.raises = "fetch"
            THEN [loop_body(sigs, t, trained, symbol, "none", in.analysis,
                            in.model_outcome, in.send_ok)
                    EXCEPT !.step = "error", !.stock_data = "unfetched"]
        ELSE IF in.raises = "log" /\ r.step = "sent"
            THEN [r EXCEPT !.step = "sent_error"]
        ELSE r

---------------------------------------------------------------------------
(* TradingBot: the scheduler runs run_analysis and run_daily_analysis one
   after the other (python/main.py) *)

InitBot ==
    /\ pc = "idle"
    /\ is_trained = FALSE
    /\ indicators = NoIndicators
    /\ ml_outcome = ModelRaises
    /\ model_used = FALSE
    /\ technical_signals = None
    /\ ml_prediction = None
    /\ combined_signal = None
    /\ BotIdle

\* fetch_market_overview: a dict, or an exception (the function has no
\* try/except of its own).  Whether the dict is empty only decides whether the
\* summary is sent, which send_market_summary does without raising
OverviewOutcomes == {"data", "raise"}

\* get_multiple_stocks_data: an empty dict, a dict of frames, or an exception
HistoricalOutcomes == {"empty", "data", "raise"}

\* run_analysis, lines 36-43: the loop is entered unless fetch_market_overview
\* raises, which the outer except of lines 117-123 ends the pass on
pass_starts(overview) == overview # "raise"

\* run_daily_analysis, lines 127-146, up to the call of run_analysis: an
\* exception of a fetch reaches the outer except before train_model and
\* reset_daily_count are called
daily_steps(trained, result, count, overview, historical_data, o) ==
    IF overview = "raise" \/ historical_data = "raise"
        THEN [raised |-> TRUE, is_trained |-> trained, train_result |-> result,
              daily_count |-> count]
    ELSE IF historical_data = "data"
        THEN [raised |-> FALSE, is_trained |-> train_model_is_trained(trained, o),
              train_result |-> IF train_model_returns(o) THEN "True" ELSE "False",
              daily_count |-> 0]
    ELSE [raised |-> FALSE, is_trained |-> trained, train_result |-> result,
          daily_count |-> 0]

\* run_analysis, lines 36-43 and 117-123: when the overview fetch raises, the
\* outer except logs the error and the pass is over with nothing changed
RunAnalysis ==
    /\ pc = "idle"
    /\ \E overview \in OverviewOutcomes :
        IF pass_starts(overview)
            THEN /\ pc' = "loop"
                 /\ symbol_idx' = 1
                 /\ signals_sent' = 0
        ELSE UNCHANGED <<pc, symbol_idx, signals_sent>>
    /\ UNCHANGED <<is_trained, pipeVars, signals, daily_count, now, step_outcome,
                   delivery, stock_data, train_result, mpVars, libVars, extVars>>

\* run_daily_analysis, lines 127-159: fetch, train, reset the daily count,
\* run_analysis (which fetches the overview again).  The answers of calls that
\* are not reached are not drawn
RunDailyAnalysis ==
    /\ pc = "idle"
    /\ \E overview \in OverviewOutcomes :
       \E historical_data \in (IF overview = "raise" THEN {"empty"}
                               ELSE HistoricalOutcomes) :
       \E o \in (IF overview # "raise" /\ historical_data = "data"
                 THEN TrainOutcomes ELSE {"no_data"}) :
       \E again \in (IF overview = "raise" \/ historical_data = "raise"
                     THEN {"data"} ELSE OverviewOutcomes) :
        LET d == daily_steps(is_trained, train_result, daily_count, overview,
                             historical_data, o)
        IN  /\ is_trained' = d.is_trained
            /\ train_result' = d.train_result
            /\ daily_count' = d.daily_count
            /\ IF ~d.raised /\ pass_starts(again)
                   THEN /\ pc' = "loop"
                        /\ symbol_idx' = 1
                        /\ signals_sent' = 0
               ELSE UNCHANGED <<pc, symbol_idx, signals_sent>>
    /\ UNCHANGED <<pipeVars, signals, now, step_outcome, delivery, stock_data,
                   mpVars, libVars, extVars>>

\* run_analysis, lines 45-113: the iteration for STOCK_SYMBOLS[symbol_idx] of
\* a list of n symbols, the collaborators answering as in `in`.  The limit of
\* line 103 is tested after the logger call; an exception ends the pass only
\* when it is not caught per symbol
AnalyzeSymbolWith(n, in) ==
    /\ pc = "loop"
    /\  LET r == iteration(signals, now, is_trained, symbol_idx, in)
            sent == r.step \in {"sent", "sent_error", "sent_abort"}
            count == signals_sent + (IF sent THEN 1 ELSE 0)
            stop == \/ r.step = "sent" /\ count >= MAX_SIGNALS_PER_DAY
                    \/ r.step \in {"abort", "sent_abort"}
                    \/ symbol_idx = n
        IN  /\ step_outcome' = r.step
            /\ indicators' = r.indicators
            /\ ml_outcome' = r.model_outcome
            /\ model_used' = r.model_used
            /\ technical_signals' = r.technical
            /\ ml_prediction' = r.prediction
            /\ combined_signal' = r.combined
            /\ delivery' = r.delivery
            /\ stock_data' = r.stock_data
            /\ signals' = IF sent
                              THEN add_signal(signals, symbol_idx, r.combined.final_signal,
                                              r.combined.final_confidence, now)
                          ELSE signals
            /\ daily_count' = IF sent THEN daily_count + 1 ELSE daily_count
            /\ signals_sent' = count
            /\ pc' = IF stop THEN "idle" ELSE "loop"
            /\ symbol_idx' = IF stop THEN 0 ELSE symbol_idx + 1
    /\ UNCHANGED <<is_trained, now, train_result, mpVars, libVars, extVars>>

AnalyzeSymbol ==
    \E in \in IterationInputs(signals, now, is_trained, symbol_idx) :
        AnalyzeSymbolWith(NumSymbols, in)

\* time passes between two passes of the scheduler
Tick ==
    /\ pc = "idle"
    /\ now < MaxClock
    /\ now' = now + 1
    /\ UNCHANGED <<pc, is_trained, pipeVars, signals, daily_count, symbol_idx,
                   signals_sent, step_outcome, delivery, stock_data, train_result,
                   mpVars, libVars, extVars>>

NextBot == RunAnalysis \/ RunDailyAnalysis \/ AnalyzeSymbol \/ Tick

SpecBot == InitBot /\ [][NextBot]_vars

---------------------------------------------------------------------------
(* TradingBot over the whole symbol list: passes of run_analysis and
   run_daily_analysis over Config.STOCK_SYMBOLS *)

STOCK_SYMBOLS == <<"AAPL", "GOOGL", "MSFT", "AMZN", "TSLA", "META", "NVDA", "NFLX",
                   "SPY", "QQQ", "IWM", "DIA">>

\* at most MaxQuiet symbols of a pass are analysed without a signal being recorded
MaxQuiet == 1

\* the symbols before position idx that have no record inside the cooldown
\* window: they were analysed in this pass and nothing was recorded for them
quiet_symbols(sigs, t, idx) ==
    {j \in 1..(idx - 1) : ~should_skip_symbol(sigs, j, t)}

\* an oversold RSI and a model that is sure of BUY (class 1 of signal_map)
StrongBuy ==
    [fetch |-> "ok",
     analysis |-> [empty |-> FALSE, ind |-> [NoIndicators EXCEPT !.rsi = 25]],
     model_outcome |-> [raises |-> FALSE, probabilities |-> <<0, One, 0>>],
     send_ok |-> TRUE, raises |-> "none"]

\* the collaborators' answers in the passes over the whole list: a strong
\* signal that is delivered, delivered with the logger raising afterwards, not
\* delivered, no data, or a call raising before the analysis
DayInputs(sigs, t, idx) ==
    IF should_skip_symbol(sigs, idx, t)
        THEN {[StrongBuy EXCEPT !.fetch = "none"]}
    ELSE {StrongBuy, [StrongBuy EXCEPT !.raises = "log"]}
         \cup (IF Cardinality(quiet_symbols(sigs, t, idx)) < MaxQuiet
                  THEN {[StrongBuy EXCEPT !.send_ok = FALSE],
                        [StrongBuy EXCEPT !.fetch = "none"],
                        [StrongBuy EXCEPT !.raises = "fetch"]}
               ELSE {})

InitDay ==
    /\ pc = "idle"
    /\ is_trained = FALSE
    /\ indicators = NoIndicators
    /\ ml_outcome = ModelRaises
    /\ model_used = FALSE
    /\ technical_signals = None
    /\ ml_prediction = None
    /\ combined_signal = None
    /\ BotIdle

AnalyzeSymbolOfDay ==
    \E in \in DayInputs(signals, now, symbol_idx) :
        AnalyzeSymbolWith(Len(STOCK_SYMBOLS), in)

NextDay == RunAnalysis \/ RunDailyAnalysis \/ AnalyzeSymbolOfDay \/ Tick

SpecDay == InitDay /\ [][NextDay]_vars

---------------------------------------------------------------------------
(* TradingBot over several hours: passes in which the cooldown runs out *)

\* the clock of these passes runs from 0 to MaxHours
MaxHours == 8

\* a delivered signal, a failed delivery, or no data
CooldownInputs(sigs, t, idx) ==
    IF should_skip_symbol(sigs, idx, t)
        THEN {[StrongBuy EXCEPT !.fetch = "none"]}
    ELSE {StrongBuy, [StrongBuy EXCEPT !.send_ok = FALSE],
          [StrongBuy EXCEPT !.fetch = "none"]}

\* a bot whose model was trained by run_daily_analysis and whose pass found
\* no data for the last symbol; nothing is recorded yet
InitCooldown ==
    /\ pc = "idle"
    /\ is_trained = TRUE
    /\ indicators = NoIndicators
    /\ ml_outcome = ModelRaises
    /\ model_used = FALSE
    /\ technical_signals = None
    /\ ml_prediction = None
    /\ combined_signal = None
    /\ signals = <<>>
    /\ daily_count = 0
    /\ now = 0
    /\ symbol_idx = 0
    /\ signals_sent = 0
    /\ step_outcome = "no_data"
    /\ delivery = None
    /\ stock_data = "none"
    /\ train_result = "True"
    /\ MPIdle
    /\ LibIdle
    /\ ExtIdle

AnalyzeSymbolInCooldown ==
    \E in \in CooldownInputs(signals, now, symbol_idx) :
        AnalyzeSymbolWith(NumSymbols, in)

\* an hour passes between two passes of the scheduler
TickHour ==
    /\ pc = "idle"
    /\ now < MaxHours
    /\ now' = now + 1
    /\ UNCHANGED <<pc, is_trained, pipeVars, signals, daily_count, symbol_idx,
                   signals_sent, step_outcome, delivery, stock_data, train_result,
                   mpVars, libVars, extVars>>

NextCooldown == RunAnalysis \/ AnalyzeSymbolInCooldown \/ TickHour

SpecCooldown == InitCooldown /\ [][NextCooldown]_vars

---------------------------------------------------------------------------
(* Series: a pandas Series or numpy array is a sequence; element i is bar i-1 *)

RECURSIVE SumRange(_, _, _)
SumRange(s, a, b) == IF a > b THEN 0 ELSE s[a] + SumRange(s, a + 1, b)

\* Series.diff(): the first element is NaN
diff(p) == [i \in 1..Len(p) |-> IF i = 1 THEN NaN ELSE p[i] - p[i - 1]]

\* np.diff(): one element fewer than its argument
np_diff(p) == [i \in 1..(Len(p) - 1) |-> p[i + 1] - p[i]]

\* a mean that is NaN, or sum / count
NanMean == [nan |-> TRUE, sum |-> 0, count |-> 1]

\* Series.rolling(window, min_periods).mean() of a series without NaN
rolling_mean(s, window, min_periods) ==
    [i \in 1..Len(s) |->
        LET lo == Max(1, i - window + 1)
            count == i - lo + 1
        IN  IF count < min_periods THEN NanMean
            ELSE [nan |-> FALSE, sum |-> SumRange(s, lo, i), count |-> count]]

\* float division of two means: x / 0 is inf, 0 / 0 is NaN, no error
divide(g, l) ==
    IF g.nan \/ l.nan THEN [kind |-> "nan", num |-> 0, den |-> 1]
    ELSE IF l.sum = 0
        THEN (IF g.sum = 0 THEN [kind |-> "nan", num |-> 0, den |-> 1]
              ELSE [kind |-> "inf", num |-> 1, den |-> 0])
    ELSE [kind |-> "finite", num |-> g.sum * l.count, den |-> l.sum * g.count]

\* RSI values are in hundredths of a point, rounded down
RsiUnit == 10 * 10

\* 100 - (100 / (1 + rs))
rsi_of(rs) ==
    IF rs.kind = "nan" THEN NaN
    ELSE IF rs.kind = "inf" THEN 100 * RsiUnit
    ELSE (100 * RsiUnit * rs.num) \div (rs.num + rs.den)

fillna(s, v) == [i \in 1..Len(s) |-> IF IsNaN(s[i]) THEN v ELSE s[i]]

\* TechnicalAnalysis.calculate_rsi: delta.where(delta > 0, 0) turns the NaN of
\* the first bar into 0
ta_calculate_rsi(prices, period) ==
    LET delta == diff(prices)
        up == [i \in 1..Len(delta) |-> IF Gt(delta[i], 0) THEN delta[i] ELSE 0]
        down == [i \in 1..Len(delta) |-> IF Lt(delta[i], 0) THEN 0 - delta[i] ELSE 0]
        gain == rolling_mean(up, period, period)
        loss == rolling_mean(down, period, period)
    IN  [i \in 1..Len(delta) |-> rsi_of(divide(gain[i], loss[i]))]

\* model_utils.calculate_rsi, line 20
mu_rsi_deltas(prices) == np_diff(prices)

\* model_utils.calculate_rsi
mu_calculate_rsi(prices, period) ==
    LET delta == mu_rsi_deltas(prices)
        up == [i \in 1..Len(delta) |-> IF delta[i] > 0 THEN delta[i] ELSE 0]
        down == [i \in 1..Len(delta) |-> IF delta[i] < 0 THEN 0 - delta[i] ELSE 0]
        avg_gain == rolling_mean(up, period, 1)
        avg_loss == rolling_mean(down, period, 1)
    IN  fillna([i \in 1..Len(delta) |-> rsi_of(divide(avg_gain[i], avg_loss[i]))],
               50 * RsiUnit)

---------------------------------------------------------------------------
(* Where a series is defined (not NaN): enough for the series whose values
   are not looked at *)

defined(s) == [i \in 1..Len(s) |-> ~IsNaN(s[i])]

\* finite prices
all_defined(n) == [i \in 1..n |-> TRUE]

\* ewm(span).mean(): min_periods is 0, defined from the first observation on
ewm_mean(d) == [i \in 1..Len(d) |-> \E j \in 1..i : d[j]]

\* rolling(window).mean() / .max() / .min(): NaN until the window is full
rolling(d, window) ==
    [i \in 1..Len(d) |-> i >= window /\ \A j \in (i - window + 1)..i : d[j]]

\* rolling(window).std(): sample deviation, NaN for a window of one
rolling_std(d, window) ==
    [i \in 1..Len(d) |-> window >= 2 /\ rolling(d, window)[i]]

\* element-wise arithmetic of two series
arith(a, b) == [i \in 1..Len(a) |-> a[i] /\ b[i]]

\* Series.shift(k)
shift(d, k) == [i \in 1..Len(d) |-> (i - k) \in 1..Len(d) /\ d[i - k]]

\* TechnicalAnalysis.calculate_macd
ta_calculate_macd(n, fast, slow, signal) ==
    LET ema_fast == ewm_mean(all_defined(n))
        ema_slow == ewm_mean(all_defined(n))
        macd_line == arith(ema_fast, ema_slow)
        signal_line == ewm_mean(macd_line)
        histogram == arith(macd_line, signal_line)
    IN  [macd |-> macd_line, signal |-> signal_line, histogram |-> histogram]

\* model_utils.calculate_macd
mu_calculate_macd(n, fast_period, slow_period, signal_period) ==
    LET ema_fast == ewm_mean(all_defined(n))
        ema_slow == ewm_mean(all_defined(n))
        macd_line == arith(ema_fast, ema_slow)
        signal_line == ewm_mean(macd_line)
    IN  [macd |-> macd_line, signal |-> signal_line]

\* TechnicalAnalysis.calculate_moving_averages
calculate_moving_averages(n, short, long) ==
    [ma_short |-> rolling(all_defined(n), short),
     ma_long |-> rolling(all_defined(n), long)]

\* TechnicalAnalysis.calculate_bollinger_bands
ta_calculate_bollinger_bands(n, period) ==
    LET middle == rolling(all_defined(n), period)
        std == rolling_std(all_defined(n), period)
    IN  [upper |-> arith(middle, std), middle |-> middle, lower |-> arith(middle, std)]

\* model_utils.calculate_bollinger_bands and core/indicators/bollinger_bands.py
calculate_bollinger_bands(n, period) ==
    LET sma == rolling(all_defined(n), period)
        std == rolling_std(all_defined(n), period)
    IN  [upper |-> arith(sma, std), lower |-> arith(sma, std)]

\* core/indicators/ichimoku_cloud.py
calculate_ichimoku_cloud(n) ==
    LET tenkan_sen == arith(rolling(all_defined(n), 9), rolling(all_defined(n), 9))
        kijun_sen == arith(rolling(all_defined(n), 26), rolling(all_defined(n), 26))
    IN  [tenkan_sen |-> tenkan_sen,
         kijun_sen |-> kijun_sen,
         senkou_span_a |-> shift(arith(tenkan_sen, kijun_sen), 26),
         senkou_span_b |-> shift(arith(rolling(all_defined(n), 52),
                                       rolling(all_defined(n), 52)), 26),
         chikou_span |-> shift(all_defined(n), 0 - 26)]

---------------------------------------------------------------------------
(* MarketPredictor.prepare_features *)

\* the lengths of the 13 columns appended to features, in order
feature_lengths(prices) ==
    LET n == Len(prices)
    IN  <<n, n, n, n>>                                          \* price features
        \o <<n, n, n, n>>                                       \* periods 5, 10, 20, 50
        \o <<Len(mu_calculate_rsi(prices, 14))>>                \* rsi / 100
        \o <<Len(mu_calculate_macd(n, 12, 26, 9).macd),
             Len(mu_calculate_macd(n, 12, 26, 9).signal)>>
        \o <<Len(calculate_bollinger_bands(n, 20).upper),
             Len(calculate_bollinger_bands(n, 20).lower)>>

\* np.column_stack raises ValueError unless all columns have one length
column_stack_raises(lengths) ==
    \E i \in 1..Len(lengths), j \in 1..Len(lengths) : lengths[i] # lengths[j]

prepare_features_raises(prices) == column_stack_raises(feature_lengths(prices))

---------------------------------------------------------------------------
(* The indicator functions called on a price series *)

PriceLevels == {1, 2, 3}

\* lengths around the windows of the Ichimoku lines (9, 26, 52 and the shift)
LongLengths == {27, 53, 79}

\* every short series, and a flat series of each long length
PriceSeries ==
    UNION {[1..n -> PriceLevels] : n \in 0..MaxBars}
        \cup {[i \in 1..n |-> 1] : n \in LongLengths}

Periods == {2, 3}

InitIndicators ==
    /\ pc = "indicator"
    /\ is_trained = FALSE
    /\ indicators = NoIndicators
    /\ ml_outcome = ModelRaises
    /\ model_used = FALSE
    /\ technical_signals = None
    /\ ml_prediction = None
    /\ combined_signal = None
    /\ BotHistoryIdle
    /\ ExtIdle
    /\ MPIdle
    /\ pat_data = None
    /\ pat_results = None
    /\ ind_prices \in PriceSeries
    /\ ind_period \in Periods
    /\ ind_result = None

\* pandas raises ValueError from rolling(window, min_periods) when the window
\* is negative or min_periods exceeds it, and from ewm(span) when span < 1
rolling_raises(window, min_periods) == window < 0 \/ min_periods > window

ewm_raises(span) == span < 1

\* what a call did: whether it let an exception out, the series by name, where
\* each is defined, the lookback of each, and the values of the series that is
\* looked at
Result(fn, raised, series, lookback, values) ==
    [fn |-> fn, raised |-> raised, series |-> series, lookback |-> lookback,
     values |-> values]

\* a method of TechnicalAnalysis: an exception of its try body is caught and
\* logged, and series of NaN on the index of prices are returned
Caught(fn, raises, series, lookback, values) ==
    IF raises
        THEN Result(fn, FALSE,
                    [name \in DOMAIN series |-> [i \in 1..Len(ind_prices) |-> FALSE]],
                    lookback, [i \in 1..Len(values) |-> NaN])
    ELSE Result(fn, FALSE, series, lookback, values)

\* a function without a try block: an exception of pandas leaves the call
Uncaught(fn, raises, series, lookback, values) ==
    IF raises THEN Result(fn, TRUE, EmptyDict, EmptyDict, <<>>)
    ELSE Result(fn, FALSE, series, lookback, values)

IndicatorCall(result) ==
    /\ pc = "indicator"
    /\ ind_result' = result
    /\ UNCHANGED <<pc, is_trained, pipeVars, botVars, mpVars, extVars, pat_data, pat_results,
                   ind_prices, ind_period>>

CalculateRsiTA ==
    LET rsi == ta_calculate_rsi(ind_prices, ind_period)
    IN  IndicatorCall(Caught("ta.calculate_rsi", rolling_raises(ind_period, ind_period),
                             [rsi |-> defined(rsi)], [rsi |-> ind_period], rsi))

CalculateRsiMU ==
    LET rsi == mu_calculate_rsi(ind_prices, ind_period)
    IN  IndicatorCall(Uncaught("model_utils.calculate_rsi", rolling_raises(ind_period, 1),
                               [rsi |-> defined(rsi)], [rsi |-> ind_period], rsi))

CalculateMacdTA ==
    IndicatorCall(Caught("ta.calculate_macd",
        ewm_raises(ind_period) \/ ewm_raises(ind_period + 1),
        ta_calculate_macd(Len(ind_prices), ind_period, ind_period + 1, ind_period),
        [macd |-> ind_period + 1, signal |-> ind_period + 1,
         histogram |-> ind_period + 1], <<>>))

CalculateMacdMU ==
    IndicatorCall(Uncaught("model_utils.calculate_macd",
        ewm_raises(ind_period) \/ ewm_raises(ind_period + 1),
        mu_calculate_macd(Len(ind_prices), ind_period, ind_period + 1, ind_period),
        [macd |-> ind_period + 1, signal |-> ind_period + 1], <<>>))

CalculateMovingAverages ==
    IndicatorCall(Caught("ta.calculate_moving_averages",
        rolling_raises(ind_period, ind_period)
            \/ rolling_raises(ind_period + 1, ind_period + 1),
        calculate_moving_averages(Len(ind_prices), ind_period, ind_period + 1),
        [ma_short |-> ind_period, ma_long |-> ind_period + 1], <<>>))

CalculateBollingerTA ==
    IndicatorCall(Caught("ta.calculate_bollinger_bands",
        rolling_raises(ind_period, ind_period),
        ta_calculate_bollinger_bands(Len(ind_prices), ind_period),
        [upper |-> ind_period, middle |-> ind_period, lower |-> ind_period], <<>>))

CalculateBollinger ==
    IndicatorCall(Uncaught("calculate_bollinger_bands",
        rolling_raises(ind_period, ind_period),
        calculate_bollinger_bands(Len(ind_prices), ind_period),
        [upper |-> ind_period, lower |-> ind_period], <<>>))

CalculateIchimoku ==
    IndicatorCall(Uncaught("calculate_ichimoku_cloud",
        rolling_raises(9, 9) \/ rolling_raises(26, 26) \/ rolling_raises(52, 52),
        calculate_ichimoku_cloud(Len(ind_prices)),
        [tenkan_sen |-> 9, kijun_sen |-> 26, senkou_span_a |-> 52,
         senkou_span_b |-> 78, chikou_span |-> 0], <<>>))

\* MarketPredictor.prepare_features(data) with data['close'] = ind_prices
PrepareFeatures ==
    IndicatorCall([fn |-> "prepare_features",
                   raised |-> prepare_features_raises(ind_prices),
                   series |-> EmptyDict, lookback |-> EmptyDict,
                   values |-> feature_lengths(ind_prices)])

NextIndicators ==
    \/ CalculateRsiTA \/ CalculateRsiMU \/ CalculateMacdTA \/ CalculateMacdMU
    \/ CalculateMovingAverages \/ CalculateBollingerTA \/ CalculateBollinger
    \/ CalculateIchimoku \/ PrepareFeatures

SpecIndicators == InitIndicators /\ [][NextIndicators]_vars

---------------------------------------------------------------------------
(* MarketPredictor: operations *)

AbsentFile == [kind |-> "absent", model |-> NoModel, scaler |-> 0]
CorruptFile == [kind |-> "corrupt", model |-> NoModel, scaler |-> 0]

\* a forest and a scaler fitted on training set d
FittedOn(d) == [id |-> d, fitted |-> TRUE]

\* a file whose dict has a 'model' entry and no 'scaler' entry
ModelOnlyFile(d) == [kind |-> "model_only", model |-> FittedOn(d), scaler |-> 0]

\* mutant: is_trained is set before the file is read
load_model_sets_flag_first(trained, model, scaler, file) ==
    IF file.kind = "pair"
        THEN [is_trained |-> TRUE, model |-> file.model, scaler |-> file.scaler]
    ELSE [is_trained |-> TRUE, model |-> model, scaler |-> scaler]

\* load_model: the fields after the call.  joblib.load raising leaves all three
\* as they were; a missing 'scaler' entry raises after self.model was assigned
load_model(trained, model, scaler, file) ==
    IF file.kind = "pair"
        THEN [is_trained |-> TRUE, model |-> file.model, scaler |-> file.scaler]
    ELSE IF file.kind = "model_only"
        THEN [is_trained |-> trained, model |-> file.model, scaler |-> scaler]
    ELSE [is_trained |-> trained, model |-> model, scaler |-> scaler]

\* __init__: fresh fields, then load_model when the path exists
construct(file) ==
    IF file.kind # "absent" THEN load_model(FALSE, NoModel, 0, file)
    ELSE [is_trained |-> FALSE, model |-> NoModel, scaler |-> 0]

\* how the try block of save_model goes: both calls return, os.makedirs or the
\* opening of the file raises, or joblib.dump raises once the file is open for
\* writing (the path then holds a truncated pickle)
DumpOutcomes == {"ok", "raises", "raises_in_write"}

\* save_model: the file after the call.  The except branch logs and returns:
\* the file is as before when nothing was opened, unreadable when the dump
\* failed while writing
save_model(trained, model, scaler, file, dump) ==
    IF ~trained \/ model = NoModel THEN file
    ELSE IF dump = "ok" THEN [kind |-> "pair", model |-> model, scaler |-> scaler]
    ELSE IF dump = "raises_in_write" THEN CorruptFile
    ELSE file

\* save_model: the level of the message it logs (lines 181, 190, 192)
save_model_logs(trained, model, dump) ==
    IF ~trained \/ model = NoModel THEN "error"
    ELSE IF dump = "ok" THEN "info"
    ELSE "error"

\* the frame of x rows handed to train_model or predict
frame(x) == [i \in 1..x |-> 1]

\* predict: raises ValueError when is_trained is false; prepare_features then
\* raises when its columns cannot be stacked
predict(trained, model, scaler, x) ==
    IF ~trained THEN [op |-> "predict", raised |-> "ValueError", value |-> <<>>]
    ELSE IF prepare_features_raises(frame(x))
        THEN [op |-> "predict", raised |-> "ValueError(column_stack)", value |-> <<>>]
    ELSE IF scaler = 0 \/ ~model.fitted
        THEN [op |-> "predict", raised |-> "NotFittedError", value |-> <<>>]
    ELSE [op |-> "predict", raised |-> "none",
          value |-> <<[model |-> model.id, scaler |-> scaler, input |-> x]>>]

\* mutant: the is_trained guard of get_prediction_signals is missing
get_prediction_signals_unguarded(trained, model, scaler, x) ==
    [predict(trained, model, scaler, x) EXCEPT !.op = "get_prediction_signals"]

\* get_prediction_signals: [] when is_trained is false, else one signal per row
get_prediction_signals(trained, model, scaler, x) ==
    IF ~trained
        THEN [op |-> "get_prediction_signals", raised |-> "none", value |-> <<>>]
    ELSE [predict(trained, model, scaler, x) EXCEPT !.op = "get_prediction_signals"]

\* what the 'model' entry of a file can hold: None, or a forest, fitted or not
FileModels == {NoModel} \cup {[id |-> d, fitted |-> f] : d \in 1..MaxData, f \in BOOLEAN}

\* what is at model_path when the first predictor is constructed.  The file is
\* an input of the program: save_model is its only writer and needs a trained
\* predictor, which train_model cannot produce (see TrainPredictor), so a
\* complete file was put there by other means.  It holds any model with any
\* scaler (scaler 0 is an unfitted one)
InitialFiles ==
    {AbsentFile, CorruptFile}
        \cup {[kind |-> "pair", model |-> m, scaler |-> sc] :
                m \in FileModels, sc \in 0..MaxData}
        \cup {ModelOnlyFile(d) : d \in 1..MaxData}

InitMP ==
    /\ pc = "predictor"
    /\ is_trained = FALSE
    /\ indicators = NoIndicators
    /\ ml_outcome = ModelRaises
    /\ model_used = FALSE
    /\ technical_signals = None
    /\ ml_prediction = None
    /\ combined_signal = None
    /\ BotHistoryIdle
    /\ ExtIdle
    /\ LibIdle
    /\ \E file \in InitialFiles :
        /\ mp_file = file
        /\ mp_is_trained = construct(file).is_trained
        /\ mp_model = construct(file).model
        /\ mp_scaler = construct(file).scaler
    /\ mp_call = [op |-> "init", raised |-> "none", value |-> <<>>]

\* a new MarketPredictor on the same path
Construct ==
    /\ pc = "predictor"
    /\ mp_is_trained' = construct(mp_file).is_trained
    /\ mp_model' = construct(mp_file).model
    /\ mp_scaler' = construct(mp_file).scaler
    /\ mp_call' = [op |-> "init", raised |-> "none", value |-> <<>>]
    /\ UNCHANGED <<pc, is_trained, pipeVars, botVars, libVars, extVars, mp_file>>

\* train_model, lines 92-116, on a training set of d rows: the fields, the
\* file and the exception after the call.  prepare_features comes first (line
\* 101) and its exception leaves the call; then the scaler is refitted and the
\* forest fitted (104-113, where fit can raise), is_trained is set and
\* save_model is called (114-116)
train_model(trained, model, scaler, file, d, fit_ok, dump) ==
    IF prepare_features_raises(frame(d))
        THEN [is_trained |-> trained, model |-> model, scaler |-> scaler,
              file |-> file, raised |-> "ValueError(column_stack)"]
    ELSE IF ~fit_ok
        THEN [is_trained |-> trained, model |-> [id |-> d, fitted |-> FALSE],
              scaler |-> d, file |-> file, raised |-> "Exception"]
    ELSE [is_trained |-> TRUE, model |-> FittedOn(d), scaler |-> d,
          file |-> save_model(TRUE, FittedOn(d), d, file, dump),
          raised |-> "none"]

\* train_model(data, labels) on every non-empty training set.  fit and
\* joblib.dump are reached, and their outcomes drawn, only when
\* prepare_features returns; it raises for every frame of one row or more (the
\* RSI column is one value short), so every call ends at line 101 with the
\* predictor and the file as they were
TrainPredictor ==
    /\ pc = "predictor"
    /\ \E d \in 1..MaxData :
        \E fit_ok \in (IF prepare_features_raises(frame(d)) THEN {FALSE} ELSE BOOLEAN),
           dump \in (IF prepare_features_raises(frame(d)) THEN {"ok"} ELSE DumpOutcomes) :
            LET after == train_model(mp_is_trained, mp_model, mp_scaler, mp_file,
                                     d, fit_ok, dump)
            IN  /\ mp_is_trained' = after.is_trained
                /\ mp_model' = after.model
                /\ mp_scaler' = after.scaler
                /\ mp_file' = after.file
                /\ mp_call' = [op |-> "train_model", raised |-> after.raised,
                               value |-> <<>>]
    /\ UNCHANGED <<pc, is_trained, pipeVars, botVars, libVars, extVars>>

Predict ==
    /\ pc = "predictor"
    /\ \E x \in 1..MaxData : mp_call' = predict(mp_is_trained, mp_model, mp_scaler, x)
    /\ UNCHANGED <<pc, is_trained, pipeVars, botVars, libVars, extVars,
                   mp_is_trained, mp_model, mp_scaler, mp_file>>

GetPredictionSignals ==
    /\ pc = "predictor"
    /\ \E x \in 1..MaxData :
        mp_call' = get_prediction_signals(mp_is_trained, mp_model, mp_scaler, x)
    /\ UNCHANGED <<pc, is_trained, pipeVars, botVars, libVars, extVars,
                   mp_is_trained, mp_model, mp_scaler, mp_file>>

SaveModel ==
    /\ pc = "predictor"
    /\ \E dump \in DumpOutcomes :
        /\ mp_file' = save_model(mp_is_trained, mp_model, mp_scaler, mp_file, dump)
        /\ mp_call' = [op |-> "save_model", raised |-> "none", value |-> <<>>,
                       logged |-> save_model_logs(mp_is_trained, mp_model, dump)]
    /\ UNCHANGED <<pc, is_trained, pipeVars, botVars, libVars, extVars,
                   mp_is_trained, mp_model, mp_scaler>>

LoadModel ==
    /\ pc = "predictor"
    /\ mp_is_trained' = load_model(mp_is_trained, mp_model, mp_scaler, mp_file).is_trained
    /\ mp_model' = load_model(mp_is_trained, mp_model, mp_scaler, mp_file).model
    /\ mp_scaler' = load_model(mp_is_trained, mp_model, mp_scaler, mp_file).scaler
    /\ mp_call' = [op |-> "load_model", raised |-> "none", value |-> <<>>]
    /\ UNCHANGED <<pc, is_trained, pipeVars, botVars, libVars, extVars, mp_file>>

NextMP == Construct \/ TrainPredictor \/ Predict \/ GetPredictionSignals
            \/ SaveModel \/ LoadModel

SpecMP == InitMP /\ [][NextMP]_vars

---------------------------------------------------------------------------
(* PatternDetector (core/patterns/pattern_detector.py) *)

\* the keys of self.patterns, in insertion order
Families == <<"candlestick", "chart", "volume", "momentum", "volatility", "trend">>

FamilySet == {Families[i] : i \in 1..Len(Families)}

\* what a detector call does: it raises, or it returns a list of events
Raised == [raised |-> TRUE, patterns |-> <<>>]
Returned(events) == [raised |-> FALSE, patterns |-> events]

crossover(kind, direction, bar) ==
    [type |-> kind, timestamp |-> bar, strength |-> 1, direction |-> direction]

\* mutant: the previous bar is compared strictly
chart_events_strict(len, short_prev, short_last, long_prev, long_last) ==
    IF len >= 20
        THEN IF Gt(short_last, long_last) /\ Lt(short_prev, long_prev)
                THEN <<crossover("bullish_crossover", "bullish", len - 1)>>
             ELSE IF Lt(short_last, long_last) /\ Gt(short_prev, long_prev)
                THEN <<crossover("bearish_crossover", "bearish", len - 1)>>
             ELSE <<>>
    ELSE <<>>

\* lines 67-89: the events appended for the last bar; short/long are the
\* 10- and 20-bar SMA at iloc[-2] (prev) and iloc[-1] (last)
chart_events(len, short_prev, short_last, long_prev, long_last) ==
    IF len >= 20
        THEN IF Gt(short_last, long_last) /\ Le(short_prev, long_prev)
                THEN <<crossover("bullish_crossover", "bullish", len - 1)>>
             ELSE IF Lt(short_last, long_last) /\ Ge(short_prev, long_prev)
                THEN <<crossover("bearish_crossover", "bearish", len - 1)>>
             ELSE <<>>
    ELSE <<>>

\* _detect_chart_patterns: data['close'] raises KeyError when the column is
\* missing, once the length test has passed
detect_chart_patterns(d) ==
    IF d.len >= 20 /\ ~d.has_close THEN Raised
    ELSE Returned(chart_events(d.len, d.short_prev, d.short_last,
                               d.long_prev, d.long_last))

\* _detect_candlestick_patterns is a placeholder that returns []
detect_candlestick_patterns(d) == Returned(<<>>)

\* the detector of one family applied to a copy of the frame; the volume,
\* momentum, volatility and trend detectors are given by what they do on d
detector(family, d) ==
    IF family = "candlestick" THEN detect_candlestick_patterns(d)
    ELSE IF family = "chart" THEN detect_chart_patterns(d)
    ELSE d.others[family]

\* mutant: no try/except around the detector call, the first error ends the loop
RECURSIVE detect_loop_aborting(_, _, _)
detect_loop_aborting(d, i, results) ==
    IF i > Len(Families) THEN results
    ELSE LET family == Families[i]
             r == IF IsNone(d) THEN Raised ELSE detector(family, d)
         IN  IF r.raised THEN results
             ELSE detect_loop_aborting(d, i + 1,
                    [f \in DOMAIN results \cup {family} |->
                        IF f = family THEN r.patterns ELSE results[f]])

\* lines 44-49: the loop over self.patterns from position i on; data.copy()
\* is inside the try, so a frame of None makes every family's call raise
RECURSIVE detect_loop(_, _, _)
detect_loop(d, i, results) ==
    IF i > Len(Families) THEN results
    ELSE LET family == Families[i]
             r == IF IsNone(d) THEN Raised ELSE detector(family, d)
         IN  detect_loop(d, i + 1,
                [f \in DOMAIN results \cup {family} |->
                    IF f = family
                        THEN (IF r.raised THEN <<>> ELSE r.patterns)
                    ELSE results[f]])

detect_patterns(d) == detect_loop(d, 1, [f \in {} |-> <<>>])

\* an event of one of the other families
OtherEvent == [type |-> "event", timestamp |-> 0, strength |-> 1, direction |-> "neutral"]

DetectorOutcomes == {Raised, Returned(<<>>), Returned(<<OtherEvent>>)}

SmaValues == {NaN, 1, 2}

\* frames: under 20 rows no SMA is computed; at exactly 20 rows the 20-bar SMA
\* of the previous bar is undefined
PatternFrames ==
    {None}
    \cup {[len |-> n, has_close |-> c, short_prev |-> sp, short_last |-> sl,
           long_prev |-> lp, long_last |-> ll, others |-> o] :
            n \in {19, 20, 21}, c \in BOOLEAN,
            sp \in SmaValues, sl \in SmaValues, lp \in SmaValues, ll \in SmaValues,
            o \in [{"volume", "momentum", "volatility", "trend"} -> DetectorOutcomes]}

WellFormedFrame(d) ==
    \/ IsNone(d)
    \/ /\ d.len = 19 => /\ d.short_prev = NaN /\ d.short_last = NaN
                          /\ d.long_prev = NaN /\ d.long_last = NaN
       /\ d.len = 20 => d.long_prev = NaN
       /\ ~d.has_close => /\ d.short_prev = NaN /\ d.short_last = NaN
                           /\ d.long_prev = NaN /\ d.long_last = NaN

InitPatterns ==
    /\ pc = "patterns"
    /\ is_trained = FALSE
    /\ indicators = NoIndicators
    /\ ml_outcome = ModelRaises
    /\ model_used = FALSE
    /\ technical_signals = None
    /\ ml_prediction = None
    /\ combined_signal = None
    /\ BotHistoryIdle
    /\ ExtIdle
    /\ MPIdle
    /\ pat_data \in {d \in PatternFrames : WellFormedFrame(d)}
    /\ pat_results = None
    /\ ind_prices = <<>>
    /\ ind_period = 0
    /\ ind_result = None

\* results = detector.detect_patterns(data)
DetectPatterns ==
    /\ pc = "patterns"
    /\ pat_results' = detect_patterns(pat_data)
    /\ pc' = "done"
    /\ UNCHANGED <<is_trained, pipeVars, botVars, mpVars, extVars, pat_data,
                   ind_prices, ind_period, ind_result>>

SpecPatterns == InitPatterns /\ [][DetectPatterns]_vars

---------------------------------------------------------------------------
(* PatternDetector._detect_volume_patterns on a concrete volume column *)

\* window of ta.volume.sma_indicator(data['volume'], window=20)
VOLUME_WINDOW == 20

volume_spike(bar, v, ma) ==
    [type |-> "volume_spike", timestamp |-> bar,
     strength |-> [num |-> v * ma.count, den |-> ma.sum], direction |-> "neutral"]

\* data['volume'].iloc[i] > 2 * data['volume_ma'].iloc[i]; False on a NaN mean
is_spike(v, ma) == ~ma.nan /\ v * ma.count > 2 * ma.sum

\* lines 99-106: for i in range(len(data) - 1), i.e. the rows 0 .. len - 2;
\* row i is element i + 1 of the sequence
RECURSIVE volume_events(_, _, _)
volume_events(volume, ma, i) ==
    IF i > Len(volume) - 1 THEN <<>>
    ELSE (IF is_spike(volume[i], ma[i])
             THEN <<volume_spike(i - 1, volume[i], ma[i])>>
          ELSE <<>>)
         \o volume_events(volume, ma, i + 1)

\* _detect_volume_patterns; has_volume is the test on data.columns. The ta
\* library defines sma_indicator in ta.trend;
\* where ta.volume has no such attribute the call raises AttributeError
detect_volume_patterns(d) ==
    IF ~d.has_volume \/ d.rows < VOLUME_WINDOW THEN Returned(<<>>)
    ELSE IF ~d.ta_volume_sma THEN Raised
    ELSE Returned(volume_events(d.volume,
                    rolling_mean(d.volume, VOLUME_WINDOW, VOLUME_WINDOW), 1))

\* the entry of the 'volume' family in the dictionary of detect_patterns
volume_entry(d) ==
    LET r == detect_volume_patterns(d)
    IN  IF r.raised THEN <<>> ELSE r.patterns

\* volumes: a quiet level of 9; 19 is exactly twice the mean of a window that
\* holds it once among quiet bars, 20 is above twice that mean
VolumeLevels == {9, 19, 20}

VolumeLengths == {19, 20, 21, 22}

\* the rows whose volume varies: the first one and the last four
VariedRows(n) == {1} \cup ((n - 3)..n)

VolumeSeries ==
    UNION {{[i \in 1..n |-> IF i \in VariedRows(n) THEN f[i] ELSE 9] :
                f \in [VariedRows(n) -> VolumeLevels]} : n \in VolumeLengths}

VolumeFrames ==
    {[rows |-> Len(v), has_volume |-> TRUE, volume |-> v, ta_volume_sma |-> a] :
        v \in VolumeSeries, a \in BOOLEAN}
    \cup {[rows |-> n, has_volume |-> FALSE, volume |-> <<>>, ta_volume_sma |-> a] :
            n \in VolumeLengths, a \in BOOLEAN}

InitVolume ==
    /\ pc = "volume"
    /\ is_trained = FALSE
    /\ indicators = NoIndicators
    /\ ml_outcome = ModelRaises
    /\ model_used = FALSE
    /\ technical_signals = None
    /\ ml_prediction = None
    /\ combined_signal = None
    /\ BotHistoryIdle
    /\ ExtIdle
    /\ MPIdle
    /\ pat_data \in VolumeFrames
    /\ pat_results = None
    /\ ind_prices = <<>>
    /\ ind_period = 0
    /\ ind_result = None

\* results['volume'] of detect_patterns(data)
DetectVolumePatterns ==
    /\ pc = "volume"
    /\ pat_results' = [volume |-> volume_entry(pat_data)]
    /\ pc' = "done"
    /\ UNCHANGED <<is_trained, pipeVars, botVars, mpVars, extVars, pat_data,
                   ind_prices, ind_period, ind_result>>

SpecVolume == InitVolume /\ [][DetectVolumePatterns]_vars

---------------------------------------------------------------------------
(* TradingEngine (services/python/main.py) *)

MaxPasses == 2

\* one call made by process_market_data
call(op, args) == [op |-> op, args |-> args]

\* pattern_engine.MarketPredictor(), the predictor main.py imports (line 14) and
\* TradingEngine.__init__ constructs without arguments (line 33).  Its module
\* pattern_engine/market_predictor.py is not among the sources, so the predictor
\* is modelled from the specification: a model declares itself untrained until
\* train succeeds with non-empty data.  No statement of main.py trains it.
MarketPredictor == [is_trained |-> FALSE]

\* what get_prediction_signals of that predictor does with a frame: it raises,
\* or returns a list of signals
PredictionOutcomes == {Raised, Returned(<<>>), Returned(<<OtherEvent>>)}

\* mutant: the predictor is asked whether or not it is trained
process_market_data_unguarded(mp, d, analysis, ml) ==
    LET patterns == detect_patterns(d)
        first == <<call("get_sample_data", <<>>),
                   call("detect_patterns", <<d>>),
                   call("analyze_signals", <<patterns, d>>)>>
        asked == first \o <<call("get_prediction_signals", <<d>>)>>
        out(c, sigs) ==
            IF Len(sigs) > 0 THEN c \o <<call("output_signals", <<sigs>>)>>
            ELSE c
    IN  IF analysis.raised THEN first
        ELSE IF ml.raised THEN asked
        ELSE out(asked, analysis.patterns \o ml.patterns)

\* process_market_data, lines 52-73: the calls of one pass, in order.  d is the
\* frame get_sample_data returned, analysis what analyze_signals does, ml what
\* get_prediction_signals does when it is called; an exception ends the pass
\* (it is logged by the except branch)
process_market_data(mp, d, analysis, ml) ==
    LET patterns == detect_patterns(d)
        first == <<call("get_sample_data", <<>>),
                   call("detect_patterns", <<d>>),
                   call("analyze_signals", <<patterns, d>>)>>
        asked == first \o <<call("get_prediction_signals", <<d>>)>>
        out(c, sigs) ==
            IF Len(sigs) > 0 THEN c \o <<call("output_signals", <<sigs>>)>>
            ELSE c
    IN  IF analysis.raised THEN first
        ELSE IF mp.is_trained
            THEN (IF ml.raised THEN asked
                  ELSE out(asked, analysis.patterns \o ml.patterns))
        ELSE out(first, analysis.patterns)

\* frames of 21 rows with a close column whose averages at the last two bars
\* vary
EngineFrames ==
    {[len |-> 21, has_close |-> TRUE, short_prev |-> sp, short_last |-> sl,
      long_prev |-> 1, long_last |-> ll,
      others |-> [f \in {"volume", "momentum", "volatility", "trend"} |->
                    Returned(<<>>)]] : sp \in {1, 2}, sl \in SmaValues, ll \in {1, 2}}

\* analyze_signals raises, or returns a list of signals
AnalyzerOutcomes == {Raised, Returned(<<>>), Returned(<<OtherEvent>>)}

InitEngine ==
    /\ pc = "engine"
    /\ is_trained = FALSE
    /\ indicators = NoIndicators
    /\ ml_outcome = ModelRaises
    /\ model_used = FALSE
    /\ technical_signals = None
    /\ ml_prediction = None
    /\ combined_signal = None
    /\ BotHistoryIdle
    /\ LibIdle
    /\ mp_is_trained = FALSE
    /\ mp_model = NoModel
    /\ mp_scaler = 0
    /\ mp_file = AbsentFile
    /\ mp_call = [op |-> "none", raised |-> "none", value |-> <<>>]
    /\ engine = None
    /\ capital_com = None
    /\ backtest_state = None
    /\ paper_account = None
    /\ history_calls = None

\* TradingEngine.__init__, lines 30-34
NewEngine ==
    /\ pc = "engine"
    /\ IsNone(engine)
    /\ engine' = [is_running |-> FALSE, market_predictor |-> MarketPredictor,
                  calls |-> <<>>, passes |-> 0, task |-> "none"]
    /\ UNCHANGED <<pc, is_trained, pipeVars, botVars, mpVars, libVars,
                   capital_com, backtest_state, paper_account, history_calls>>

\* the engine after one more pass on frame d
pass(eng, d, analysis, ml) ==
    [eng EXCEPT !.calls = process_market_data(eng.market_predictor, d, analysis, ml),
                !.passes = @ + 1]

\* start(), lines 38-45, up to its first await that yields: is_running is set
\* and the first pass is made before asyncio.sleep suspends the task
StartEngine ==
    /\ pc = "engine"
    /\ ~IsNone(engine)
    /\ engine.task = "none"
    /\ engine.passes < MaxPasses
    /\ \E d \in EngineFrames, analysis \in AnalyzerOutcomes, ml \in PredictionOutcomes :
        engine' = [pass([engine EXCEPT !.is_running = TRUE], d, analysis, ml)
                     EXCEPT !.task = "sleeping"]
    /\ UNCHANGED <<pc, is_trained, pipeVars, botVars, mpVars, libVars,
                   capital_com, backtest_state, paper_account, history_calls>>

\* start(), lines 43-45, when asyncio.sleep returns: the loop makes its next
\* pass and sleeps again, or ends because stop() was called meanwhile
WakeEngine ==
    /\ pc = "engine"
    /\ ~IsNone(engine)
    /\ engine.task = "sleeping"
    /\ IF engine.is_running
           THEN /\ engine.passes < MaxPasses
                /\ \E d \in EngineFrames, analysis \in AnalyzerOutcomes,
                         ml \in PredictionOutcomes :
                       engine' = pass(engine, d, analysis, ml)
       ELSE engine' = [engine EXCEPT !.task = "none"]
    /\ UNCHANGED <<pc, is_trained, pipeVars, botVars, mpVars, libVars,
                   capital_com, backtest_state, paper_account, history_calls>>

\* stop(), called while the task of start() is suspended
StopEngine ==
    /\ pc = "engine"
    /\ ~IsNone(engine)
    /\ engine.is_running
    /\ engine' = [engine EXCEPT !.is_running = FALSE]
    /\ UNCHANGED <<pc, is_trained, pipeVars, botVars, mpVars, libVars,
                   capital_com, backtest_state, paper_account, history_calls>>

\* process_market_data called directly, as the tests do
ProcessMarketData ==
    /\ pc = "engine"
    /\ ~IsNone(engine)
    /\ engine.passes < MaxPasses
    /\ \E d \in EngineFrames, analysis \in AnalyzerOutcomes, ml \in PredictionOutcomes :
        engine' = pass(engine, d, analysis, ml)
    /\ UNCHANGED <<pc, is_trained, pipeVars, botVars, mpVars, libVars,
                   capital_com, backtest_state, paper_account, history_calls>>

NextEngine == NewEngine \/ StartEngine \/ WakeEngine \/ StopEngine \/ ProcessMarketData

SpecEngine == InitEngine /\ [][NextEngine]_vars

---------------------------------------------------------------------------
(* CapitalComAPI (core/execution/capital_com.py) *)

\* number of calls made on one client
MaxCalls == 3

\* header values: Python's None, the empty string, or a token
NoValue == "None"
HeaderValues == {NoValue, "", "token"}

\* truth value of a header value: None and '' are false
held(v) == v # NoValue /\ v # ""

\* what the server answers to POST /session: a response whose status is not an
\* error, with the two headers present or not, or requests raises a
\* RequestException (raise_for_status included); the tests also make
\* raise_for_status raise a plain Exception
SessionResponses ==
    {[kind |-> "ok", token |-> t, cst |-> c] : t \in HeaderValues, c \in {NoValue, "cst"}}
        \cup {[kind |-> k, token |-> NoValue, cst |-> NoValue] :
                k \in {"RequestException", "Exception"}}

\* what requests.get / requests.post and raise_for_status do for the data or
\* order request
DataResponses == {"ok", "RequestException", "Exception"}

request(method, path, api) ==
    [method |-> method, path |-> path, token |-> api.session_token, cst |-> api.cst]

\* _create_session: the fields after the call, what it returns, what it sent
create_session(api, resp) ==
    LET post == <<[method |-> "POST", path |-> "/session",
                   token |-> NoValue, cst |-> NoValue]>>
    IN  IF resp.kind = "ok"
            THEN [api |-> [api EXCEPT !.session_token = resp.token, !.cst = resp.cst],
                  returned |-> "True", sent |-> post]
        ELSE IF resp.kind = "RequestException"
            THEN [api |-> api, returned |-> "False", sent |-> post]
        ELSE [api |-> api, returned |-> "raise", sent |-> post]

\* lines 40-59 and 65-92: the session test, then the request
with_session(api, method, path, sresp, dresp) ==
    LET cs == IF held(api.session_token)
                  THEN [api |-> api, returned |-> "True", sent |-> <<>>]
              ELSE create_session(api, sresp)
        req == request(method, path, cs.api)
    IN  IF cs.returned = "False"
            THEN [api |-> cs.api, returned |-> "None", sent |-> cs.sent]
        ELSE IF cs.returned = "raise"
            THEN [api |-> cs.api, returned |-> "raise", sent |-> cs.sent]
        ELSE [api |-> cs.api,
              returned |-> IF dresp = "ok" THEN "json"
                           ELSE IF dresp = "RequestException" THEN "None"
                           ELSE "raise",
              sent |-> cs.sent \o <<req>>]

get_market_data(api, sresp, dresp) ==
    with_session(api, "GET", "/prices/epic", sresp, dresp)

execute_order(api, sresp, dresp) ==
    with_session(api, "POST", "/positions", sresp, dresp)

InitCapitalCom ==
    /\ pc = "capital"
    /\ is_trained = FALSE
    /\ indicators = NoIndicators
    /\ ml_outcome = ModelRaises
    /\ model_used = FALSE
    /\ technical_signals = None
    /\ ml_prediction = None
    /\ combined_signal = None
    /\ BotHistoryIdle
    /\ MPIdle
    /\ LibIdle
    /\ engine = None
    /\ capital_com = None
    /\ backtest_state = None
    /\ paper_account = None
    /\ history_calls = None

\* __init__
NewCapitalComAPI ==
    /\ pc = "capital"
    /\ IsNone(capital_com)
    /\ capital_com' = [session_token |-> NoValue, cst |-> NoValue, calls |-> 0,
                       op |-> "__init__", returned |-> "None", sent |-> <<>>,
                       response |-> [kind |-> "none", token |-> NoValue,
                                     cst |-> NoValue]]
    /\ UNCHANGED <<pc, is_trained, pipeVars, botVars, mpVars, libVars,
                   engine, backtest_state, paper_account, history_calls>>

\* the fields and the record of the call after a call that ended as r, the
\* server answering a session request with sresp
Called(op, r, sresp) ==
    [session_token |-> r.api.session_token, cst |-> r.api.cst,
     calls |-> capital_com.calls + 1, op |-> op, returned |-> r.returned,
     sent |-> r.sent, response |-> sresp]

Fields(c) == [session_token |-> c.session_token, cst |-> c.cst]

CreateSession ==
    /\ pc = "capital"
    /\ ~IsNone(capital_com)
    /\ capital_com.calls < MaxCalls
    /\ \E sresp \in SessionResponses :
        capital_com' = Called("_create_session",
                              create_session(Fields(capital_com), sresp), sresp)
    /\ UNCHANGED <<pc, is_trained, pipeVars, botVars, mpVars, libVars,
                   engine, backtest_state, paper_account, history_calls>>

GetMarketData ==
    /\ pc = "capital"
    /\ ~IsNone(capital_com)
    /\ capital_com.calls < MaxCalls
    /\ \E sresp \in SessionResponses, dresp \in DataResponses :
        capital_com' = Called("get_market_data",
                              get_market_data(Fields(capital_com), sresp, dresp),
                              sresp)
    /\ UNCHANGED <<pc, is_trained, pipeVars, botVars, mpVars, libVars,
                   engine, backtest_state, paper_account, history_calls>>

ExecuteOrder ==
    /\ pc = "capital"
    /\ ~IsNone(capital_com)
    /\ capital_com.calls < MaxCalls
    /\ \E sresp \in SessionResponses, dresp \in DataResponses :
        capital_com' = Called("execute_order",
                              execute_order(Fields(capital_com), sresp, dresp),
                              sresp)
    /\ UNCHANGED <<pc, is_trained, pipeVars, botVars, mpVars, libVars,
                   engine, backtest_state, paper_account, history_calls>>

NextCapitalCom == NewCapitalComAPI \/ CreateSession \/ GetMarketData \/ ExecuteOrder

SpecCapitalCom == InitCapitalCom /\ [][NextCapitalCom]_vars

---------------------------------------------------------------------------
(* backtest (scripts/backtest.py) and calculate_position_size *)

\* Amounts are the exact fractions [n, d], d > 0, that the floats of the code
\* approximate (to about 1 part in 10^15).  Where a branch compares two amounts
\* whose exact values are equal, the rounding of the float decides it; that
\* rounding is an input of the bar.

MaxRows == 4
INITIAL_BALANCE == 10000

RECURSIVE Gcd(_, _)
Gcd(a, b) == IF b = 0 THEN a ELSE Gcd(b, a % b)

Magnitude(x) == IF x < 0 THEN -x ELSE x

Frac(n, d) ==
    LET s == IF d < 0 THEN -1 ELSE 1
        g == Gcd(Magnitude(n), Magnitude(d))
    IN  [n |-> (s * n) \div g, d |-> (s * d) \div g]

Whole(k) == [n |-> k, d |-> 1]
FAdd(a, b) == Frac(a.n * b.d + b.n * a.d, a.d * b.d)
FSub(a, b) == Frac(a.n * b.d - b.n * a.d, a.d * b.d)
FMul(a, b) == Frac(a.n * b.n, a.d * b.d)
FDiv(a, b) == Frac(a.n * b.d, a.d * b.n)
FLeq(a, b) == a.n * b.d <= b.n * a.d
FMax(a, b) == IF FLeq(b, a) THEN a ELSE b
Percent(k) == Frac(k, 100)

\* calculate_position_size(account_balance, risk_percentage, stop_loss_price, current_price)
calculate_position_size(account_balance, risk_percentage, stop_loss_price, current_price) ==
    LET risk_amount == FMul(account_balance, Percent(risk_percentage))
        risk_per_share == FSub(current_price, stop_loss_price)
    IN  FDiv(risk_amount, risk_per_share)

\* the locals of backtest() before the loop
backtest_locals(params) ==
    [params |-> params, i |-> 0, raised |-> "none", returned |-> FALSE,
     balance |-> Whole(INITIAL_BALANCE), position |-> Whole(0),
     entry_price |-> Whole(0), trailing_stop_price |-> Whole(0),
     take_profit_bound |-> FALSE, take_profit_price |-> Whole(0),
     trades |-> <<>>, last_close |-> Whole(0), final_balance |-> Whole(0)]

trade(type, price, position, balance) ==
    [type |-> type, price |-> price, position |-> position, balance |-> balance]

discount(price, percentage) == FMul(price, FSub(Whole(1), Percent(percentage)))
premium(price, percentage) == FMul(price, FAdd(Whole(1), Percent(percentage)))

\* mutant: the purchase is made without comparing its cost with the balance
open_position_unchecked(st, current_price, rounding) ==
    LET p == st.params
        stop_loss_price == discount(current_price, p.stop_loss)
        position_size == calculate_position_size(st.balance, p.risk, stop_loss_price, current_price)
        left == FSub(st.balance, FMul(position_size, current_price))
    IN  [st EXCEPT !.take_profit_bound = TRUE,
                   !.take_profit_price = premium(current_price, p.take_profit),
                   !.position = position_size,
                   !.balance = left,
                   !.entry_price = current_price,
                   !.trailing_stop_price = discount(current_price, p.trailing_stop),
                   !.trades = Append(@, trade("buy", current_price, position_size, left))]

\* how the float position_size * current_price of line 57 lies to the exact
\* product: below it, on it, or above it
Roundings == {"down", "exact", "up"}

\* line 57, position_size * current_price <= balance, on floats: decided by
\* the exact amounts unless they are equal, by the rounding when they are
affordable(cost, balance, rounding) ==
    IF cost = balance THEN rounding # "up" ELSE FLeq(cost, balance)

\* the branch "position == 0 and the model predicts 1" with a risk percentage
open_position(st, current_price, rounding) ==
    LET p == st.params
        stop_loss_price == discount(current_price, p.stop_loss)
        take_profit_price == premium(current_price, p.take_profit)
        position_size == calculate_position_size(st.balance, p.risk, stop_loss_price, current_price)
        bound == [st EXCEPT !.take_profit_bound = TRUE, !.take_profit_price = take_profit_price]
    IN  IF affordable(FMul(position_size, current_price), st.balance, rounding)
        THEN LET left == FSub(st.balance, FMul(position_size, current_price))
             IN  [bound EXCEPT !.position = position_size,
                               !.balance = left,
                               !.entry_price = current_price,
                               !.trailing_stop_price = discount(current_price, p.trailing_stop),
                               !.trades = Append(@, trade("buy", current_price, position_size, left))]
        ELSE bound

\* the branch "position == 0 and the model predicts 1" without a risk percentage
open_position_all_in(st, current_price) ==
    LET position == FDiv(st.balance, current_price)
    IN  [st EXCEPT !.position = position,
                   !.balance = Whole(0),
                   !.trades = Append(@, trade("buy", current_price, position, Whole(0)))]

\* the branch "position != 0" with a risk percentage
manage_position(st, current_price, prediction) ==
    LET trailing == FMax(st.trailing_stop_price, discount(current_price, st.params.trailing_stop))
        moved == [st EXCEPT !.trailing_stop_price = trailing]
    IN  IF prediction = 0 \/ FLeq(current_price, trailing)
            THEN LET balance == FAdd(st.balance, FMul(st.position, current_price))
                 IN  [moved EXCEPT !.balance = balance, !.position = Whole(0),
                                   !.trades = Append(@, trade("sell", current_price, Whole(0), balance))]
        ELSE IF ~st.take_profit_bound
            THEN [moved EXCEPT !.raised = "UnboundLocalError"]
        ELSE IF FLeq(st.take_profit_price, current_price)
            THEN LET balance == FAdd(st.balance, FMul(st.position, current_price))
                 IN  [moved EXCEPT !.balance = balance, !.position = Whole(0),
                                   !.trades = Append(@, trade("sell", current_price, Whole(0), balance))]
        ELSE moved

\* the branch "position != 0" without a risk percentage
close_position_all_out(st, current_price, prediction) ==
    IF prediction = 0
    THEN LET balance == FMul(st.position, current_price)
         IN  [st EXCEPT !.balance = balance, !.position = Whole(0),
                        !.trades = Append(@, trade("sell", current_price, Whole(0), balance))]
    ELSE st

\* one iteration of "for i in range(len(df))"
backtest_bar(st, current_price, prediction, rounding) ==
    LET at == [st EXCEPT !.i = @ + 1, !.last_close = current_price]
    IN  IF st.position = Whole(0)
        THEN IF prediction = 1
             THEN IF st.params.risk_given
                  THEN open_position(at, current_price, rounding)
                  ELSE open_position_all_in(at, current_price)
             ELSE at
        ELSE IF st.params.risk_given
             THEN manage_position(at, current_price, prediction)
             ELSE close_position_all_out(at, current_price, prediction)

\* the statements after the loop
backtest_end(st) ==
    IF st.i = 0
    THEN [st EXCEPT !.raised = "IndexError"]
    ELSE [st EXCEPT !.returned = TRUE,
                    !.final_balance = FAdd(st.balance, FMul(st.position, st.last_close))]

ClosePrices == {Whole(1), Whole(2), Whole(5)}
Predictions == {0, 1}
RiskPercentages == {1, 2}
StopLossPercentages == {1, 2}
TakeProfitPercentages == {50}
TrailingStopPercentages == {25}

BacktestParams ==
    {[risk_given |-> FALSE, risk |-> 0, stop_loss |-> 0, take_profit |-> 0, trailing_stop |-> 0]}
    \cup {[risk_given |-> TRUE, risk |-> r, stop_loss |-> s, take_profit |-> t, trailing_stop |-> u] :
            r \in RiskPercentages, s \in StopLossPercentages,
            t \in TakeProfitPercentages, u \in TrailingStopPercentages}

InitBacktest ==
    /\ pc = "backtest"
    /\ is_trained = FALSE
    /\ indicators = NoIndicators
    /\ ml_outcome = ModelRaises
    /\ model_used = FALSE
    /\ technical_signals = None
    /\ ml_prediction = None
    /\ combined_signal = None
    /\ BotHistoryIdle
    /\ MPIdle
    /\ LibIdle
    /\ engine = None
    /\ capital_com = None
    /\ backtest_state = None
    /\ paper_account = None
    /\ history_calls = None

\* backtest(df, model, ...): the statements before the loop
StartBacktest ==
    /\ pc = "backtest"
    /\ backtest_state = None
    /\ \E params \in BacktestParams : backtest_state' = backtest_locals(params)
    /\ UNCHANGED <<pc, is_trained, pipeVars, botVars, mpVars, libVars,
                   engine, capital_com, paper_account, history_calls>>

\* one bar of the frame
BacktestBar ==
    /\ pc = "backtest"
    /\ backtest_state # None
    /\ backtest_state.raised = "none"
    /\ ~backtest_state.returned
    /\ backtest_state.i < MaxRows
    /\ \E current_price \in ClosePrices, prediction \in Predictions,
          rounding \in Roundings :
           backtest_state' = backtest_bar(backtest_state, current_price, prediction, rounding)
    /\ UNCHANGED <<pc, is_trained, pipeVars, botVars, mpVars, libVars,
                   engine, capital_com, paper_account, history_calls>>

\* the frame has no further row
BacktestEnd ==
    /\ pc = "backtest"
    /\ backtest_state # None
    /\ backtest_state.raised = "none"
    /\ ~backtest_state.returned
    /\ backtest_state' = backtest_end(backtest_state)
    /\ UNCHANGED <<pc, is_trained, pipeVars, botVars, mpVars, libVars,
                   engine, capital_com, paper_account, history_calls>>

NextBacktest == StartBacktest \/ BacktestBar \/ BacktestEnd

SpecBacktest == InitBacktest /\ [][NextBacktest]_vars

---------------------------------------------------------------------------
(* AdvancedDiscordBot.paper_slash: the /paper command of one user *)

MaxCommands == 3
STARTING_BALANCE == 100000
BUY_PRICE == 100
SELL_PRICE == 105

\* str.upper on the symbols of the commands
upper(symbol) == IF symbol = "aapl" THEN "AAPL" ELSE symbol

\* an argument that was not given: the handler only tests the truth value of
\* symbol and quantity, and None is falsy like "" and 0
NoSymbol == ""
NoQuantity == 0

\* truth value of the arguments
given(symbol) == symbol # NoSymbol
truthy(quantity) == quantity # NoQuantity

EmptyPositions == [s \in {} |-> 0]

\* the account created for a user that has none
new_account ==
    [balance |-> STARTING_BALANCE, positions |-> EmptyPositions, trade_history |-> <<>>]

account_of(acc) == IF IsNone(acc) THEN new_account ELSE acc

paper_trade(action, symbol, quantity, price) ==
    [action |-> action, symbol |-> symbol, quantity |-> quantity, price |-> price]

\* the branch action == "buy"
paper_buy(account, sym, quantity) ==
    LET symbol == upper(sym)
        price == BUY_PRICE
        cost == quantity * price
    IN  IF cost <= account.balance
        THEN [account |->
                [balance |-> account.balance - cost,
                 positions |->
                    [s \in DOMAIN account.positions \cup {symbol} |->
                        IF s = symbol
                        THEN (IF symbol \in DOMAIN account.positions
                              THEN account.positions[symbol] + quantity
                              ELSE quantity)
                        ELSE account.positions[s]],
                 trade_history |->
                    Append(account.trade_history, paper_trade("BUY", symbol, quantity, price))],
              reply |-> "executed"]
        ELSE [account |-> account, reply |-> "insufficient_funds"]

\* the branch action == "sell"
paper_sell(account, sym, quantity) ==
    LET symbol == upper(sym)
    IN  IF symbol \in DOMAIN account.positions /\ account.positions[symbol] >= quantity
        THEN LET price == SELL_PRICE
                 revenue == quantity * price
                 left == account.positions[symbol] - quantity
             IN  [account |->
                    [balance |-> account.balance + revenue,
                     positions |->
                        IF left = 0
                        THEN [s \in DOMAIN account.positions \ {symbol} |-> account.positions[s]]
                        ELSE [account.positions EXCEPT ![symbol] = left],
                     trade_history |->
                        Append(account.trade_history, paper_trade("SELL", symbol, quantity, price))],
                  reply |-> "executed"]
        ELSE [account |-> account, reply |-> "insufficient_shares"]

\* paper_slash(interaction, action, symbol, quantity) on the account of the user
paper_slash(acc, action, symbol, quantity) ==
    LET account == account_of(acc)
    IN  IF action = "buy" /\ given(symbol) /\ truthy(quantity)
            THEN paper_buy(account, symbol, quantity)
        ELSE IF action = "sell" /\ given(symbol) /\ truthy(quantity)
            THEN paper_sell(account, symbol, quantity)
        ELSE [account |-> account, reply |-> "balance"]

PaperSymbols == {"aapl", "AAPL", "MSFT"}
PaperQuantities == {-1000, -1, 0, 1, 1000, 1001}

InitPaper ==
    /\ pc = "paper"
    /\ is_trained = FALSE
    /\ indicators = NoIndicators
    /\ ml_outcome = ModelRaises
    /\ model_used = FALSE
    /\ technical_signals = None
    /\ ml_prediction = None
    /\ combined_signal = None
    /\ BotHistoryIdle
    /\ MPIdle
    /\ LibIdle
    /\ engine = None
    /\ capital_com = None
    /\ backtest_state = None
    /\ paper_account = None
    /\ history_calls = None

\* the state after one command: the account and what the command was
Commanded(acc, action, symbol, quantity) ==
    LET r == paper_slash(acc, action, symbol, quantity)
    IN  [account |-> r.account, reply |-> r.reply, action |-> action,
         symbol |-> symbol, quantity |-> quantity,
         commands |-> (IF IsNone(paper_account) THEN 0 ELSE paper_account.commands) + 1]

AccountOfUser == IF IsNone(paper_account) THEN None ELSE paper_account.account

CommandsLeft ==
    IF IsNone(paper_account) THEN TRUE ELSE paper_account.commands < MaxCommands

\* /paper buy SYMBOL QUANTITY
PaperBuy ==
    /\ pc = "paper"
    /\ CommandsLeft
    /\ \E symbol \in PaperSymbols, quantity \in PaperQuantities :
           paper_account' = Commanded(AccountOfUser, "buy", symbol, quantity)
    /\ UNCHANGED <<pc, is_trained, pipeVars, botVars, mpVars, libVars,
                   engine, capital_com, backtest_state, history_calls>>

\* /paper sell SYMBOL QUANTITY
PaperSell ==
    /\ pc = "paper"
    /\ CommandsLeft
    /\ \E symbol \in PaperSymbols, quantity \in PaperQuantities :
           paper_account' = Commanded(AccountOfUser, "sell", symbol, quantity)
    /\ UNCHANGED <<pc, is_trained, pipeVars, botVars, mpVars, libVars,
                   engine, capital_com, backtest_state, history_calls>>

\* /paper, /paper balance
PaperBalance ==
    /\ pc = "paper"
    /\ CommandsLeft
    /\ paper_account' = Commanded(AccountOfUser, "balance", NoSymbol, NoQuantity)
    /\ UNCHANGED <<pc, is_trained, pipeVars, botVars, mpVars, libVars,
                   engine, capital_com, backtest_state, history_calls>>

NextPaper == PaperBuy \/ PaperSell \/ PaperBalance

SpecPaper == InitPaper /\ [][NextPaper]_vars

---------------------------------------------------------------------------
(* combine_signals on arbitrary records: None, {}, partial and complete dicts *)

TechnicalDicts ==
    {None, EmptyDict}
    \cup {[overall_signal |-> k] : k \in Kinds}
    \cup {[confidence |-> c] : c \in ConfidenceGrid}
    \cup {[overall_signal |-> k, confidence |-> c] : k \in Kinds, c \in ConfidenceGrid}

PredictionDicts ==
    {None, EmptyDict}
    \cup {[predicted_signal |-> k] : k \in Kinds}
    \cup {[confidence |-> c] : c \in ConfidenceGrid}
    \cup {[predicted_signal |-> k, confidence |-> c] : k \in Kinds, c \in ConfidenceGrid}

InitFusion ==
    /\ pc = "combine"
    /\ indicators = NoIndicators
    /\ is_trained = FALSE
    /\ ml_outcome = ModelRaises
    /\ model_used = FALSE
    /\ technical_signals \in TechnicalDicts
    /\ ml_prediction \in PredictionDicts
    /\ combined_signal = None
    /\ BotIdle

SpecFusion == InitFusion /\ [][CombineSignals]_vars

---------------------------------------------------------------------------
(* Claims about combine_signals (SpecFusion) *)

HasTA(d) == ~IsNone(d) /\ "overall_signal" \in DOMAIN d /\ "confidence" \in DOMAIN d
HasML(d) == ~IsNone(d) /\ "predicted_signal" \in DOMAIN d /\ "confidence" \in DOMAIN d

Combined == pc = "done" /\ ~IsNone(combined_signal)

\* C1 (as claimed): when exactly one of the two signals is HOLD the result is the
\* non-HOLD signal at 0.7 times the confidence of that non-HOLD signal.
C1_NonHoldConfidence ==
    (/\ Combined
     /\ HasTA(technical_signals) /\ HasML(ml_prediction)
     /\ technical_signals.overall_signal # ml_prediction.predicted_signal
     /\ (technical_signals.overall_signal = "HOLD"
            \/ ml_prediction.predicted_signal = "HOLD"))
    => LET ta_is_hold == technical_signals.overall_signal = "HOLD"
           kind == IF ta_is_hold THEN ml_prediction.predicted_signal
                   ELSE technical_signals.overall_signal
           conf == IF ta_is_hold THEN ml_prediction.confidence
                   ELSE technical_signals.confidence
       IN  /\ combined_signal.final_signal = kind
           /\ combined_signal.final_confidence = (conf * 7) \div 10

\* C2: when both signals are the same kind the result is that kind with
\* confidence min((ta + ml)/2 + 0.1, 1.0).
C2_AgreeBonus ==
    (/\ Combined
     /\ HasTA(technical_signals) /\ HasML(ml_prediction)
     /\ technical_signals.overall_signal = ml_prediction.predicted_signal)
    => /\ combined_signal.final_signal = technical_signals.overall_signal
       /\ LET avg2 == technical_signals.confidence + ml_prediction.confidence
          IN  IF avg2 + 200 >= 2 * One
                  THEN combined_signal.final_confidence = One
              ELSE 2 * combined_signal.final_confidence = avg2 + 200

\* the spec's example: BUY(0.8) and BUY(0.9) give BUY(0.95)
C2_Witness ==
    /\ Combined
    /\ technical_signals = [overall_signal |-> "BUY", confidence |-> 800]
    /\ ml_prediction = [predicted_signal |-> "BUY", confidence |-> 900]
    /\ combined_signal.final_signal = "BUY"
    /\ combined_signal.final_confidence = 950

\* C3: one BUY and one SELL give HOLD at exactly 0.3, whatever the confidences.
C3_DisagreeHold ==
    (/\ Combined
     /\ HasTA(technical_signals) /\ HasML(ml_prediction)
     /\ {technical_signals.overall_signal, ml_prediction.predicted_signal}
            = {"BUY", "SELL"})
    => /\ combined_signal.final_signal = "HOLD"
       /\ combined_signal.final_confidence = 300

\* the spec's example: BUY(0.7) against SELL(0.6) gives HOLD(0.3)
C3_Witness ==
    /\ Combined
    /\ technical_signals = [overall_signal |-> "BUY", confidence |-> 700]
    /\ ml_prediction = [predicted_signal |-> "SELL", confidence |-> 600]
    /\ combined_signal.final_signal = "HOLD"
    /\ combined_signal.final_confidence = 300

\* C6 (as claimed): a missing or malformed record (None, {}, a missing field)
\* always gives HOLD at 0.5 and never raises.
C6_MalformedGivesHoldHalf ==
    (pc = "done" /\ (~HasTA(technical_signals) \/ ~HasML(ml_prediction)))
    => /\ ~combined_signal.exception
       /\ combined_signal.final_signal = "HOLD"
       /\ combined_signal.final_confidence = 500

\* the records with their missing fields read as HOLD and 0.5
FillTA(d) == [overall_signal |-> Get(d, "overall_signal", "HOLD"),
              confidence |-> Get(d, "confidence", 500)]
FillML(d) == [predicted_signal |-> Get(d, "predicted_signal", "HOLD"),
              confidence |-> Get(d, "confidence", 500)]

\* C6 (amended): combine_signals never raises; a None record gives HOLD at 0.5;
\* a missing field is read as HOLD (signal) or 0.5 (confidence) and the two
\* records are then fused by the ordinary rules.
C6_DefaultsThenFuse ==
    pc = "done"
    => /\ ~combined_signal.exception
       /\ (IsNone(technical_signals) \/ IsNone(ml_prediction))
            => /\ combined_signal.final_signal = "HOLD"
               /\ combined_signal.final_confidence = 500
       /\ (~IsNone(technical_signals) /\ ~IsNone(ml_prediction))
            => combined_signal =
                 combine_signals(FillTA(technical_signals), FillML(ml_prediction))

\* an empty technical record against BUY(0.9): BUY at 0.63, not HOLD at 0.5
C6_Witness ==
    /\ pc = "done"
    /\ technical_signals = EmptyDict
    /\ ml_prediction = [predicted_signal |-> "BUY", confidence |-> 900]
    /\ combined_signal.final_signal = "BUY"
    /\ combined_signal.final_confidence = 630

---------------------------------------------------------------------------
(* Claims about the pipeline (SpecPipeline) *)

Analysed == pc \in {"predict", "combine", "done"}
Predicted == pc \in {"combine", "done"}

CountType(sigs, t) == Cardinality({i \in 1..Len(sigs) : sigs[i].type = t})

RECURSIVE StrengthOfType(_, _, _)
StrengthOfType(sigs, t, i) ==
    IF i = 0 THEN 0
    ELSE (IF sigs[i].type = t THEN sigs[i].strength ELSE 0)
            + StrengthOfType(sigs, t, i - 1)

MeanStrength(sigs, t) ==
    Min(StrengthOfType(sigs, t, Len(sigs)) \div CountType(sigs, t), One)

\* C4: the overall signal is the kind with strictly more rule signals, at the
\* mean strength of that bucket capped at 1.0; on a tie (no rule fired
\* included) it is HOLD at 0.5.
C4_MajorityVote ==
    Analysed
    => LET sigs == technical_signals.individual_signals
           nb == CountType(sigs, "BUY")
           ns == CountType(sigs, "SELL")
       IN  /\ sigs = rule_signals(indicators.rsi, indicators.macd, indicators.signal,
                                  indicators.ma_short, indicators.ma_long,
                                  indicators.price)
           /\ nb > ns => /\ technical_signals.overall_signal = "BUY"
                         /\ technical_signals.confidence = MeanStrength(sigs, "BUY")
           /\ ns > nb => /\ technical_signals.overall_signal = "SELL"
                         /\ technical_signals.confidence = MeanStrength(sigs, "SELL")
           /\ nb = ns => /\ technical_signals.overall_signal = "HOLD"
                         /\ technical_signals.confidence = 500

\* RSI oversold and MACD bullish against price below both averages: BUY at 0.65
C4_Witness ==
    /\ Analysed
    /\ technical_signals.signal_count = [BUY |-> 2, SELL |-> 1]
    /\ technical_signals.overall_signal = "BUY"
    /\ technical_signals.confidence = 650

InUnit(c) == 0 <= c /\ c <= One

\* C7: the technical confidence, the ML confidence and the final confidence
\* all lie in [0,1].
C7_ConfidenceInUnit ==
    /\ Analysed => InUnit(technical_signals.confidence)
    /\ Predicted => InUnit(ml_prediction.confidence)
    /\ pc = "done" => InUnit(combined_signal.final_confidence)

\* the largest final confidence the pipeline produces: BUY(0.7) with BUY(1.0)
C7_Witness ==
    /\ pc = "done"
    /\ technical_signals.confidence = 700
    /\ ml_prediction.confidence = One
    /\ combined_signal.final_signal = "BUY"
    /\ combined_signal.final_confidence = 950

\* C8: predict_signal on an untrained model returns HOLD at 0.5 without
\* consulting the scaler or the model; on a trained model whose prediction
\* raises it returns HOLD at 0.5 as well.
C8_UntrainedOrFailedPrediction ==
    Predicted
    => /\ ~is_trained => /\ ml_prediction.predicted_signal = "HOLD"
                         /\ ml_prediction.confidence = 500
                         /\ ~model_used
       /\ (is_trained /\ ml_outcome.raises)
            => /\ ml_prediction.predicted_signal = "HOLD"
               /\ ml_prediction.confidence = 500

C8_Witness ==
    /\ Predicted
    /\ ~is_trained
    /\ ml_prediction.predicted_signal = "HOLD"
    /\ ml_prediction.confidence = 500
    /\ ~model_used

---------------------------------------------------------------------------
(* Claims about TradingBot (SpecBot) *)

\* the combined signal of the iteration just run is deliverable
Deliverable(c) ==
    /\ ~IsNone(c)
    /\ c.final_signal # "HOLD"
    /\ c.final_confidence >= MIN_CONFIDENCE_THRESHOLD

\* C5: an iteration of run_analysis hands a signal to the delivery adapter only
\* if final_signal is not HOLD and final_confidence >= 0.6, and then it is that
\* signal; in every other case nothing is sent and the history is untouched.
C5_OnlyActionableDelivered ==
    [][pc = "loop"
        => /\ ~IsNone(delivery')
                => /\ Deliverable(combined_signal')
                   /\ delivery'.symbol = symbol_idx
                   /\ delivery'.final_signal = combined_signal'.final_signal
                   /\ delivery'.final_confidence = combined_signal'.final_confidence
           /\ ~Deliverable(combined_signal')
                => /\ IsNone(delivery')
                   /\ signals' = signals
                   /\ daily_count' = daily_count
                   /\ signals_sent' = signals_sent]_vars

\* HOLD at 0.85 (technical HOLD, ML HOLD at 1.0) is above the threshold and dropped
C5_Witness ==
    /\ step_outcome = "below_threshold"
    /\ combined_signal.final_signal = "HOLD"
    /\ combined_signal.final_confidence = 850
    /\ IsNone(delivery)

\* C10 (as claimed): after any sequence of train_model calls, a call that
\* returned False leaves is_trained false.
C10_FailedTrainingLeavesUntrained ==
    train_result = "False" => ~is_trained

---------------------------------------------------------------------------
(* Claims about MarketPredictor (SpecMP) *)

\* C9 (as claimed): with is_trained false, predict and get_prediction_signals
\* return a neutral output instead of raising.
C9_UntrainedNeverRaises ==
    (~mp_is_trained /\ mp_call.op \in {"predict", "get_prediction_signals"})
    => mp_call.raised = "none"

\* C9 (amended): with is_trained false, get_prediction_signals returns the
\* empty list without raising, and predict raises ValueError.
C9_UntrainedSignalsEmptyPredictRaises ==
    ~mp_is_trained
    => /\ mp_call.op = "get_prediction_signals"
            => mp_call.raised = "none" /\ mp_call.value = <<>>
       /\ mp_call.op = "predict"
            => mp_call.raised = "ValueError" /\ mp_call.value = <<>>

C9_Witness ==
    /\ ~mp_is_trained
    /\ mp_call.op = "get_prediction_signals"
    /\ mp_call.raised = "none"
    /\ mp_call.value = <<>>

---------------------------------------------------------------------------
(* Claims about MLTradingModel.is_trained (SpecBot) *)

\* C11: is_trained is false at construction and stays false until a train_model
\* call returns True; a train_model call that returns False (its training data
\* is empty, or a step raised) on an untrained model leaves it false.
C11_UntrainedUntilFirstSuccess ==
    /\ ~is_trained
    /\ [][/\ (~is_trained /\ is_trained') => train_result' = "True"
          /\ (RunDailyAnalysis /\ ~is_trained /\ train_result' = "False")
                => ~is_trained']_vars

\* a daily pass whose training failed, on a model never trained
C11_Witness ==
    /\ train_result = "False"
    /\ ~is_trained
    /\ pc = "loop"

---------------------------------------------------------------------------
(* Claims about MarketPredictor construction and persistence (SpecMP) *)

\* C12: constructing a MarketPredictor raises nothing; with no file at the path
\* is_trained is false; is_trained is true after construction only if the file
\* existed and model and scaler are the ones loaded from it; a load that
\* failed leaves is_trained false.
C12_ConstructionLoadsOrStaysUntrained ==
    mp_call.op = "init"
    => /\ mp_call.raised = "none"
       /\ mp_file.kind = "absent"
            => ~mp_is_trained /\ mp_model = NoModel
       /\ mp_is_trained
            => /\ mp_file.kind = "pair"
               /\ mp_model = mp_file.model
               /\ mp_scaler = mp_file.scaler
       /\ mp_file.kind \in {"corrupt", "model_only"} => ~mp_is_trained

\* a predictor just constructed on a file that could not be loaded completely
C12_Witness ==
    /\ mp_call.op = "init"
    /\ mp_file.kind = "model_only"
    /\ mp_model = mp_file.model
    /\ ~mp_is_trained

\* the state just after a save_model call on a trained predictor
JustSaved == mp_call.op = "save_model" /\ mp_is_trained /\ mp_model # NoModel

\* what predict returns for input x; nothing when it raises
Returns(trained, model, scaler, x) ==
    LET r == predict(trained, model, scaler, x)
    IN  IF r.raised = "none" THEN {r.value} ELSE {}

\* C13: for a trained predictor, load_model right after save_model, in the same
\* instance or in a new one on the same path, restores the model and scaler
\* held, and predict returns for every input the predictions it returned
\* before saving.
C13_SaveLoadRoundTrip ==
    JustSaved
    => LET same == load_model(mp_is_trained, mp_model, mp_scaler, mp_file)
           new == construct(mp_file)
       IN  /\ same.is_trained /\ same.model = mp_model /\ same.scaler = mp_scaler
           /\ new.is_trained /\ new.model = mp_model /\ new.scaler = mp_scaler
           /\ \A x \in 1..MaxData :
                LET before == Returns(mp_is_trained, mp_model, mp_scaler, x)
                IN  /\ before # {}
                    /\ Returns(same.is_trained, same.model, same.scaler, x) = before
                    /\ Returns(new.is_trained, new.model, new.scaler, x) = before

---------------------------------------------------------------------------
(* Claims about missing data (SpecBot) *)

\* C14: for no data (None) or fewer than 50 bars analyze_stock returns the
\* empty analysis {}, and the iteration of run_analysis for that symbol ends
\* without a delivery and leaves the history and the counters as they were.
C14_InsufficientDataIsEmpty ==
    [][(pc = "loop" /\ stock_data' \in {"none", "short"})
        => /\ \A a \in AnalysisResults : analyze_stock(stock_data', a) = EmptyDict
           /\ step_outcome' = "no_data"
           /\ IsNone(delivery')
           /\ IsNone(combined_signal')
           /\ signals' = signals
           /\ daily_count' = daily_count
           /\ signals_sent' = signals_sent
           /\ pc' \in {"loop", "idle"}]_vars

\* fewer than 50 bars for the first symbol: the loop goes on to the next one
C14_Witness ==
    /\ stock_data = "short"
    /\ step_outcome = "no_data"
    /\ pc = "loop"
    /\ symbol_idx = 2

---------------------------------------------------------------------------
(* Claims about PatternDetector (SpecPatterns) *)

Detected == pc = "done" /\ ~IsNone(pat_results)

\* C15: detect_patterns returns an entry for each of the six families; the
\* entry of a family whose detector raised is the empty list, and the entry
\* of every other family is what its detector returned.
C15_EveryFamilyReported ==
    Detected
    => /\ DOMAIN pat_results = FamilySet
       /\ Cardinality(FamilySet) = 6
       /\ ~IsNone(pat_data)
            => \A f \in FamilySet :
                 /\ detector(f, pat_data).raised => pat_results[f] = <<>>
                 /\ ~detector(f, pat_data).raised
                      => pat_results[f] = detector(f, pat_data).patterns
       /\ IsNone(pat_data) => \A f \in FamilySet : pat_results[f] = <<>>

\* the chart detector raises and the trend detector, run after it, reports
C15_Witness ==
    /\ Detected
    /\ ~IsNone(pat_data)
    /\ detector("chart", pat_data).raised
    /\ pat_results["chart"] = <<>>
    /\ pat_results["trend"] = <<OtherEvent>>

HasType(events, t) == \E i \in 1..Len(events) : events[i].type = t

\* the frame lets _detect_chart_patterns compare the moving averages
ChartRun == Detected /\ ~IsNone(pat_data) /\ ~detector("chart", pat_data).raised

\* C16: a bullish_crossover is emitted exactly when the short MA is <= the long
\* MA at the previous bar and > it at the last bar, a bearish_crossover exactly
\* when it is >= at the previous bar and < at the last bar, never both, and
\* neither when a moving average is undefined.
C16_CrossoverExactly ==
    ChartRun
    => LET d == pat_data
           events == pat_results["chart"]
           up == /\ d.short_prev # NaN /\ d.long_prev # NaN
                 /\ d.short_last # NaN /\ d.long_last # NaN
                 /\ d.short_prev <= d.long_prev /\ d.short_last > d.long_last
           down == /\ d.short_prev # NaN /\ d.long_prev # NaN
                   /\ d.short_last # NaN /\ d.long_last # NaN
                   /\ d.short_prev >= d.long_prev /\ d.short_last < d.long_last
       IN  /\ HasType(events, "bullish_crossover") <=> up
           /\ HasType(events, "bearish_crossover") <=> down
           /\ ~(HasType(events, "bullish_crossover")
                    /\ HasType(events, "bearish_crossover"))
           /\ Len(events) <= 1

\* the averages touch at the previous bar and the short one is above at the last
C16_Witness ==
    /\ ChartRun
    /\ pat_data.short_prev = pat_data.long_prev
    /\ pat_data.short_last = 2 /\ pat_data.long_last = 1
    /\ HasType(pat_results["chart"], "bullish_crossover")

---------------------------------------------------------------------------
(* Claims about the indicator functions (SpecIndicators) *)

AfterCall == pc = "indicator" /\ ~IsNone(ind_result)

IsIndicator == AfterCall /\ ind_result.fn # "prepare_features"

\* C17 (as claimed): every indicator function returns one value per input
\* price, and prepare_features can therefore stack its columns.
C17_SeriesAligned ==
    AfterCall
    => /\ \A name \in DOMAIN ind_result.series :
            Len(ind_result.series[name]) = Len(ind_prices)
       /\ ind_result.fn = "prepare_features" => ~ind_result.raised

UndefinedBeforeLookback(name) ==
    \A i \in 1..Len(ind_result.series[name]) :
        i < ind_result.lookback[name] => ~ind_result.series[name][i]

\* C18 (as claimed): no indicator raises, and every output before its lookback
\* window is filled is undefined.
C18_UndefinedBeforeWarmUp ==
    IsIndicator
    => /\ ~ind_result.raised
       /\ \A name \in DOMAIN ind_result.series : UndefinedBeforeLookback(name)

NonConstant(p) == \E i \in 1..Len(p), j \in 1..Len(p) : p[i] # p[j]

\* the bars whose changes enter the RSI value at output index i
RsiWindow(i) ==
    IF ind_result.fn = "ta.calculate_rsi"
        THEN {k \in (i - ind_period + 1)..i : k >= 2}
    ELSE {k \in (i - ind_period + 2)..(i + 1) : k >= 2}

\* C19 (as claimed): for a non-constant price series every RSI value over a
\* filled window is a number in [0,100], and it is 100 when the window has no
\* loss.
C19_RsiDefinedInRange ==
    (/\ AfterCall
     /\ ind_result.fn \in {"ta.calculate_rsi", "model_utils.calculate_rsi"}
     /\ NonConstant(ind_prices))
    => \A i \in 1..Len(ind_result.values) :
         i >= ind_period
         => /\ ~IsNaN(ind_result.values[i])
            /\ 0 <= ind_result.values[i]
            /\ ind_result.values[i] <= 100 * RsiUnit
            /\ (\A k \in RsiWindow(i) : ind_prices[k] >= ind_prices[k - 1])
                 => ind_result.values[i] = 100 * RsiUnit

---------------------------------------------------------------------------
(* Claims about delivery failures (SpecBot) *)

\* C20: when send_signal returns False for the signal of an iteration, that
\* iteration makes no second attempt, adds nothing to the history, counts
\* nothing as sent, and the loop goes on with the next symbol (or ends after
\* the last one).
C20_FailedDeliveryNotRecorded ==
    [][(pc = "loop" /\ ~IsNone(delivery') /\ ~delivery'.returned)
        => /\ step_outcome' = "send_failed"
           /\ signals' = signals
           /\ daily_count' = daily_count
           /\ signals_sent' = signals_sent
           /\ IF symbol_idx = NumSymbols
                  THEN pc' = "idle"
              ELSE pc' = "loop" /\ symbol_idx' = symbol_idx + 1]_vars

\* a failed delivery for the first symbol, the loop now at the second
C20_Witness ==
    /\ step_outcome = "send_failed"
    /\ ~IsNone(delivery)
    /\ ~delivery.returned
    /\ delivery.symbol = 1
    /\ pc = "loop"
    /\ symbol_idx = 2
    /\ signals = <<>>

---------------------------------------------------------------------------
(* Claims about the volume detector (SpecVolume) *)

VolumeRun == pc = "done" /\ pat_data.has_volume /\ pat_data.rows >= VOLUME_WINDOW

SpikeReported(events, bar) ==
    \E k \in 1..Len(events) :
        /\ events[k].type = "volume_spike"
        /\ events[k].timestamp = bar
        /\ events[k].direction = "neutral"

\* C21: given at least 20 bars, the volume entry holds a volume_spike event
\* (direction neutral) for every bar, the last one included, whose volume is
\* above twice its 20-bar rolling mean, and for no other bar.
C21_SpikeAtEveryBar ==
    VolumeRun
    => LET v == pat_data.volume
           ma == rolling_mean(v, VOLUME_WINDOW, VOLUME_WINDOW)
       IN  /\ \A i \in 1..Len(v) :
                SpikeReported(pat_results.volume, i - 1)
                    <=> (~ma[i].nan /\ v[i] * VOLUME_WINDOW > 2 * ma[i].sum)
           /\ Len(pat_results.volume)
                = Cardinality({i \in 1..Len(v) :
                    ~ma[i].nan /\ v[i] * VOLUME_WINDOW > 2 * ma[i].sum})

---------------------------------------------------------------------------
(* Claims about TradingEngine (SpecEngine) *)

CallsOf(calls, op) == {k \in 1..Len(calls) : calls[k].op = op}

PassDone == ~IsNone(engine) /\ engine.passes > 0

\* the calls of a pass: one detect_patterns on the fetched frame, one
\* analyze_signals on what it returned, get_prediction_signals only when trained
PassCalls ==
    PassDone
    => LET calls == engine.calls
       IN  /\ Cardinality(CallsOf(calls, "detect_patterns")) = 1
           /\ Cardinality(CallsOf(calls, "analyze_signals")) = 1
           /\ \A k \in CallsOf(calls, "analyze_signals") :
                \E j \in CallsOf(calls, "detect_patterns") :
                    /\ j < k
                    /\ calls[k].args = <<detect_patterns(calls[j].args[1]),
                                         calls[j].args[1]>>
           /\ CallsOf(calls, "get_prediction_signals") # {}
                => engine.market_predictor.is_trained

\* the predictor is asked only if it is trained, whatever state it is in:
\* process_market_data on an untrained and on a trained predictor
AskedOnlyIfTrained ==
    \A trained \in BOOLEAN, d \in EngineFrames, analysis \in AnalyzerOutcomes,
       ml \in PredictionOutcomes :
        LET calls == process_market_data([is_trained |-> trained], d, analysis, ml)
        IN  /\ CallsOf(calls, "get_prediction_signals") # {} => trained
            /\ (trained /\ ~analysis.raised)
                => Cardinality(CallsOf(calls, "get_prediction_signals")) = 1

---------------------------------------------------------------------------
(* Claims about the passes over the whole symbol list (SpecDay) *)

\* the records of one symbol, in order
OwnRecords(sigs, symbol) == SelectSeq(sigs, LAMBDA r : r.symbol = symbol)

\* every answer the collaborators give in SpecDay
AllDayInputs ==
    {StrongBuy, [StrongBuy EXCEPT !.raises = "log"],
     [StrongBuy EXCEPT !.send_ok = FALSE], [StrongBuy EXCEPT !.fetch = "none"],
     [StrongBuy EXCEPT !.raises = "fetch"]}

\* what an iteration does is what it would do on the symbol's own records
OwnDataDecides ==
    pc = "loop"
    => \E in \in AllDayInputs :
        LET r == iteration(OwnRecords(signals, symbol_idx), now, is_trained,
                           symbol_idx, in)
        IN  /\ step_outcome' = r.step
            /\ stock_data' = r.stock_data
            /\ combined_signal' = r.combined
            /\ delivery' = r.delivery

LimitReached == step_outcome' = "sent" /\ signals_sent' >= MAX_SIGNALS_PER_DAY

\* C23 as stated: what is done for a symbol depends on its own data and
\* records only, and whether it is analysed does not depend on the other
\* symbols: the pass goes on to the next symbol after every iteration.
C23_SymbolsIndependent ==
    [][/\ OwnDataDecides
       /\ (pc = "loop" /\ symbol_idx < Len(STOCK_SYMBOLS))
            => (pc' = "loop" /\ symbol_idx' = symbol_idx + 1)]_vars

\* C23 amended: as above, except that the pass ends, the remaining symbols not
\* analysed, with the iteration in which the MAX_SIGNALS_PER_DAY-th signal of
\* the pass is sent.
C23_IndependentUpToLimit ==
    [][/\ OwnDataDecides
       /\ (pc = "loop" /\ symbol_idx < Len(STOCK_SYMBOLS) /\ ~LimitReached)
            => (pc' = "loop" /\ symbol_idx' = symbol_idx + 1)
       /\ (pc = "loop" /\ LimitReached) => pc' = "idle"]_vars

\* one symbol without a signal, ten signals up to symbol 11, symbol 12 not reached
C23_Witness ==
    /\ pc = "idle"
    /\ step_outcome = "sent"
    /\ signals_sent = MAX_SIGNALS_PER_DAY
    /\ delivery.symbol = 11
    /\ Len(OwnRecords(signals, 12)) = 0

\* C25: no more than MAX_SIGNALS_PER_DAY signals are recorded between two
\* reset_daily_count calls (daily_count is their number).
C25_DailyLimit == daily_count <= MAX_SIGNALS_PER_DAY

\* C27: an iteration that ends in the except branch changes no record and no
\* earlier count (a signal recorded before the exception is kept), and the
\* pass goes on with the next symbol.
C27_ExceptionPerSymbol ==
    [][(pc = "loop" /\ step_outcome' \in {"error", "sent_error", "abort", "sent_abort"})
        => /\ Len(signals') >= Len(signals)
           /\ SubSeq(signals', 1, Len(signals)) = signals
           /\ signals_sent' >= signals_sent
           /\ daily_count' >= daily_count
           /\ step_outcome' \in {"error", "abort"}
                => (signals' = signals /\ signals_sent' = signals_sent /\ IsNone(delivery'))
           /\ symbol_idx < Len(STOCK_SYMBOLS)
                => (pc' = "loop" /\ symbol_idx' = symbol_idx + 1)
           /\ symbol_idx = Len(STOCK_SYMBOLS) => pc' = "idle"]_vars

\* the analysis of the second symbol raised after the signal of the first was
\* recorded; the record is kept and the third symbol comes next
C27_Witness ==
    /\ pc = "loop"
    /\ symbol_idx = 3
    /\ step_outcome = "error"
    /\ signals_sent = 1
    /\ Len(signals) = 1
    /\ signals[1].symbol = 1

---------------------------------------------------------------------------
(* Claims about the cooldown (SpecCooldown) *)

SameSymbolPairs(sigs) ==
    {p \in (1..Len(sigs)) \X (1..Len(sigs)) :
        p[1] < p[2] /\ sigs[p[1]].symbol = sigs[p[2]].symbol}

\* C26: no two recorded signals of one symbol are less than
\* SIGNAL_COOLDOWN_HOURS apart, and a symbol with a record inside the cooldown
\* window is skipped before its data is fetched: nothing is fetched, analysed,
\* delivered or recorded for it.
C26_Cooldown ==
    [][/\ \A p \in SameSymbolPairs(signals') :
            signals'[p[2]].timestamp - signals'[p[1]].timestamp >= SIGNAL_COOLDOWN_HOURS
       /\ (pc = "loop"
           /\ \E k \in 1..Len(signals) :
                /\ signals[k].symbol = symbol_idx
                /\ now - signals[k].timestamp <= SIGNAL_COOLDOWN_HOURS)
            => /\ step_outcome' = "skipped"
               /\ stock_data' = "unfetched"
               /\ IsNone(delivery')
               /\ signals' = signals
               /\ signals_sent' = signals_sent]_vars

\* a symbol with two records: the second was sent once the cooldown had run
\* out, and the symbol is being skipped in a later pass
C26_Witness ==
    /\ SameSymbolPairs(signals) # {}
    /\ step_outcome = "skipped"
    /\ stock_data = "unfetched"

---------------------------------------------------------------------------
(* Claims about SignalHistory (SpecHistory) *)

\* the last n elements of s, all of s when it is shorter
LastOf(s, n) == IF Len(s) <= n THEN s ELSE SubSeq(s, Len(s) - n + 1, Len(s))

\* C28: after add_signal calls the history holds at most 1000 records, they
\* are the most recently added ones in insertion order, and daily_count is
\* the number of add_signal calls since the last reset_daily_count.
C28_HistoryBounded ==
    (pc = "history" /\ Len(history_calls.added) > 0)
    => /\ Len(signals) <= MAX_HISTORY
       /\ signals = LastOf(history_calls.loaded \o history_calls.added, MAX_HISTORY)
       /\ daily_count = history_calls.since_reset

\* C28, amended: the same, daily_count being the number of add_signal calls
\* since the last reset_daily_count, and before the first one the count
\* load_history started with (the stored count when the last stored record is
\* dated today, otherwise 0) plus the number of add_signal calls made.
C28_HistoryBoundedFromLoadedCount ==
    (pc = "history" /\ Len(history_calls.added) > 0)
    => /\ Len(signals) <= MAX_HISTORY
       /\ signals = LastOf(history_calls.loaded \o history_calls.added, MAX_HISTORY)
       /\ daily_count = history_calls.since_reset
                          + (IF history_calls.resets = 0
                             THEN history_calls.loaded_count ELSE 0)

\* a full history of today with a stored count of two, after two more adds and
\* no reset: the two oldest records are gone and four signals are counted
C28_Witness ==
    /\ pc = "history"
    /\ Len(history_calls.loaded) = MAX_HISTORY
    /\ Len(history_calls.added) = 2
    /\ Len(signals) = MAX_HISTORY
    /\ signals[1].timestamp = 3
    /\ history_calls.resets = 0
    /\ daily_count = 4

---------------------------------------------------------------------------
(* Claims about CapitalComAPI (SpecCapitalCom) *)

IsDataRequest(r) == r.path # "/session"

DataCall(c) == ~IsNone(c) /\ c.op \in {"get_market_data", "execute_order"}

\* the call asked the server for a session
SessionAsked(before, after) ==
    after.op = "_create_session" \/ (DataCall(after) /\ ~held(before.session_token))

\* C24: a data or order request is sent only with a session token held; a
\* call made without one creates the session first and a call made with one
\* sends no session request; a _create_session that succeeds stores the token
\* and CST of the response, and one that fails stores nothing and makes the
\* caller return None without sending its request.
C24_SessionBeforeRequest ==
    [][~IsNone(capital_com)
        => LET before == capital_com
               after == capital_com'
               sent == after.sent
           IN  /\ \A k \in 1..Len(sent) :
                    IsDataRequest(sent[k]) => held(sent[k].token)
               /\ (DataCall(after) /\ held(before.session_token))
                    => (Len(sent) = 1 /\ IsDataRequest(sent[1])
                        /\ sent[1].token = before.session_token
                        /\ after.session_token = before.session_token)
               /\ (DataCall(after) /\ ~held(before.session_token))
                    => (Len(sent) >= 1 /\ ~IsDataRequest(sent[1]))
               /\ (SessionAsked(before, after) /\ after.response.kind = "ok")
                    => (/\ after.session_token = after.response.token
                        /\ after.cst = after.response.cst)
               /\ (SessionAsked(before, after) /\ after.response.kind # "ok")
                    => (/\ after.session_token = before.session_token
                        /\ after.cst = before.cst
                        /\ Len(sent) = 1
                        /\ (DataCall(after) /\ after.response.kind = "RequestException")
                             => after.returned = "None")]_vars

---------------------------------------------------------------------------
(* Claims about the backtest loop (SpecBacktest) *)

NonNegative(a) == FLeq(Whole(0), a)

Alternating(trades) ==
    \A k \in 1..Len(trades) :
        trades[k].type = (IF k % 2 = 1 THEN "buy" ELSE "sell")

\* a run with a risk percentage, after the statements before the loop
RiskRun(st) == ~IsNone(st) /\ st.params.risk_given /\ st.raised = "none"

\* C29: with positive prices and percentages, after every bar the balance and
\* the position are not negative, a buy is recorded only by a bar that began
\* with no position and a sell only by a bar that began with one, and the
\* recorded trades alternate buy, sell, buy, ... starting with a buy.
C29_BacktestAlternates ==
    [][RiskRun(backtest_state')
         => LET before == backtest_state
                after == backtest_state'
            IN  /\ NonNegative(after.balance)
                /\ NonNegative(after.position)
                /\ Alternating(after.trades)
                /\ (~IsNone(before) /\ Len(after.trades) > Len(before.trades))
                     => LET t == after.trades[Len(after.trades)]
                        IN  /\ Len(after.trades) = Len(before.trades) + 1
                            /\ t.type = "buy" => (before.position = Whole(0)
                                                    /\ after.position # Whole(0))
                            /\ t.type = "sell" => (before.position # Whole(0)
                                                     /\ after.position = Whole(0))]_vars

\* a run with a risk percentage that bought, sold and bought again, the first
\* purchase having used the whole balance
C29_Witness ==
    /\ RiskRun(backtest_state)
    /\ Len(backtest_state.trades) >= 3
    /\ backtest_state.trades[1].balance = Whole(0)
    /\ backtest_state.position # Whole(0)

---------------------------------------------------------------------------
(* Claims about the paper-trading account (SpecPaper) *)

Rejected(reply) == reply \in {"insufficient_funds", "insufficient_shares"}

\* C30: after any sequence of buy and sell commands with integer quantities
\* the balance is >= 0 and every held position is > 0, and a rejected
\* command leaves balance, positions and trade history unchanged.
C30_PaperAccountSound ==
    [][~IsNone(paper_account')
         => LET before == account_of(AccountOfUser)
                after == paper_account'.account
            IN  /\ after.balance >= 0
                /\ \A s \in DOMAIN after.positions : after.positions[s] > 0
                /\ Rejected(paper_account'.reply) => after = before]_vars

====
